---------------------------- MODULE Spec2Model ----------------------------
(***************************************************************************)
(* A model of gad.digest: the local ranking (pre_rank and its scores), the *)
(* cache helpers (_items_hash, _cache_get, _cache_put), the deterministic  *)
(* mock digest (_slugify, _mock_digest) and generate_digest_json, with the *)
(* external generative service, the clock and the file system of the cache *)
(* directory as the environment.                                           *)
(*                                                                         *)
(* A text (a Python str) is a sequence of one-character strings.  An       *)
(* Optional[str] that is None is the empty sequence: the code reads such   *)
(* fields only through `x or default`, where None and "" behave alike.     *)
(***************************************************************************)
EXTENDS Integers, Sequences, FiniteSets, TLC

(***************************************************************************)
(* Bounds of the model.                                                    *)
(***************************************************************************)
\* longest item list handed to generate_digest_json
MaxItems == 2
\* number of generate_digest_json calls in one behaviour
MaxCalls == 2

(***************************************************************************)
(* Texts.                                                                  *)
(***************************************************************************)
None == <<>>

\* Unicode code point of the characters the model uses (Python compares
\* str values code point by code point).
Ord(c) ==
    CASE c = " " -> 32
      [] c = "!" -> 33
      [] c = "\"" -> 34
      [] c = "," -> 44
      [] c = "-" -> 45
      [] c = "0" -> 48
      [] c = "1" -> 49
      [] c = "B" -> 66
      [] c = "[" -> 91
      [] c = "]" -> 93
      [] c = "a" -> 97
      [] c = "b" -> 98
      [] c = "c" -> 99
      [] c = "d" -> 100
      [] c = "|" -> 124
      [] OTHER -> 200

\* s < t for two Python str values
RECURSIVE StrLess(_, _)
StrLess(s, t) ==
    IF t = <<>> THEN FALSE
    ELSE IF s = <<>> THEN TRUE
    ELSE IF Ord(Head(s)) # Ord(Head(t)) THEN Ord(Head(s)) < Ord(Head(t))
    ELSE StrLess(Tail(s), Tail(t))

\* a slice that cuts nothing
TakeAll(s, n) == s

\* s[:n]
Take(s, n) == SubSeq(s, 1, IF Len(s) < n THEN Len(s) ELSE n)

\* x whether or not it is empty
OrElseFirst(x, y) == x

\* x or y
OrElse(x, y) == IF x # <<>> THEN x ELSE y

\* list.insert at the first position whose element is greater than k: the
\* step of a stable insertion sort
RECURSIVE InsertSorted(_, _)
InsertSorted(k, ks) ==
    IF ks = <<>> THEN <<k>>
    ELSE IF StrLess(k, Head(ks)) THEN <<k>> \o ks
    ELSE <<Head(ks)>> \o InsertSorted(k, Tail(ks))

\* sorted(ks) for a list of str
RECURSIVE sorted(_)
sorted(ks) ==
    IF ks = <<>> THEN <<>> ELSE InsertSorted(Head(ks), sorted(Tail(ks)))

(***************************************************************************)
(* DigestItemInput and the items the callers hand in.                      *)
(***************************************************************************)
DigestItemInput(t, u, src, dt, snip, cont, tg) ==
    [title |-> t, url |-> u, source |-> src, date |-> dt, snippet |-> snip,
     content |-> cont, tags |-> tg]

\* Two items; the label "B!|d" of the second sorts before the label "a|c"
\* of the first.
ItemPool ==
    { DigestItemInput(<<"a">>, <<"c">>, None, None, None, None, <<>>),
      DigestItemInput(<<"B", "!">>, <<"d">>, <<"d">>, <<"1">>, <<"c", "c">>,
                      <<"b">>, << <<"a">> >>) }

RECURSIVE SeqsUpTo(_, _)
SeqsUpTo(S, n) ==
    IF n = 0 THEN {<<>>}
    ELSE LET shorter == SeqsUpTo(S, n - 1)
         IN  shorter \cup {Append(s, x) : s \in shorter, x \in S}

ItemLists == SeqsUpTo(ItemPool, MaxItems)

(***************************************************************************)
(* _items_hash.                                                            *)
(***************************************************************************)
\* f"{it.title}|{it.url}"
ItemKey(it) == it.title \o <<"|">> \o it.url

RECURSIVE JoinQuoted(_)
JoinQuoted(ks) ==
    IF ks = <<>> THEN <<>>
    ELSE <<"\"">> \o Head(ks) \o <<"\"">>
         \o (IF Tail(ks) = <<>> THEN <<>> ELSE <<",", " ">> \o JoinQuoted(Tail(ks)))

\* json.dumps(keys, ensure_ascii=False) of a list of str without quotes or
\* backslashes
JsonDumpsKeys(ks) == <<"[">> \o JoinQuoted(ks) \o <<"]">>

\* hashlib.sha256(blob).hexdigest()[:16]: the 64-bit prefix of SHA-256 is
\* taken to be collision free, so a fingerprint is named by the blob hashed.
Sha256Hex16(blob) == <<"sha">> \o blob

ItemKeys(its) == [i \in 1..Len(its) |-> ItemKey(its[i])]

\* the keys in input order: _items_hash without sorted()
items_hash_unsorted(its) == Sha256Hex16(JsonDumpsKeys(ItemKeys(its)))

_items_hash(its) == Sha256Hex16(JsonDumpsKeys(sorted(ItemKeys(its))))

(***************************************************************************)
(* _slugify.                                                               *)
(***************************************************************************)
\* str.lower() on one character
Lower(c) ==
    CASE c = "A" -> "a"
      [] c = "B" -> "b"
      [] c = "C" -> "c"
      [] c = "D" -> "d"
      [] c = "E" -> "e"
      [] c = "F" -> "f"
      [] c = "G" -> "g"
      [] c = "H" -> "h"
      [] c = "I" -> "i"
      [] c = "J" -> "j"
      [] c = "K" -> "k"
      [] c = "L" -> "l"
      [] c = "M" -> "m"
      [] c = "N" -> "n"
      [] c = "O" -> "o"
      [] c = "P" -> "p"
      [] c = "Q" -> "q"
      [] c = "R" -> "r"
      [] c = "S" -> "s"
      [] c = "T" -> "t"
      [] c = "U" -> "u"
      [] c = "V" -> "v"
      [] c = "W" -> "w"
      [] c = "X" -> "x"
      [] c = "Y" -> "y"
      [] c = "Z" -> "z"
      [] OTHER -> c

\* a-z and 0-9; the model has no text with a character of the CJK block
IsSlugChar(c) ==
    c \in {"a", "b", "c", "d", "e", "f", "g", "h", "i", "j", "k",
           "l", "m", "n", "o", "p", "q", "r", "s", "t", "u", "v",
           "w", "x", "y", "z", "0", "1", "2", "3", "4", "5", "6",
           "7", "8", "9"}

RECURSIVE LStrip(_, _)
LStrip(s, cs) ==
    IF s # <<>> /\ Head(s) \in cs THEN LStrip(Tail(s), cs) ELSE s

RECURSIVE RStrip(_, _)
RStrip(s, cs) ==
    IF s # <<>> /\ s[Len(s)] \in cs THEN RStrip(SubSeq(s, 1, Len(s) - 1), cs) ELSE s

\* str.strip(cs)
Strip(s, cs) == RStrip(LStrip(s, cs), cs)

\* re.sub of the slug pattern by "-": every maximal run of other
\* characters becomes one hyphen
RECURSIVE SubRuns(_, _)
SubRuns(s, inRun) ==
    IF s = <<>> THEN <<>>
    ELSE IF IsSlugChar(Head(s)) THEN <<Head(s)>> \o SubRuns(Tail(s), FALSE)
    ELSE IF inRun THEN SubRuns(Tail(s), TRUE)
    ELSE <<"-">> \o SubRuns(Tail(s), TRUE)

SlugCap == 60

_slugify(text) ==
    LET lowered == Strip([i \in 1..Len(text) |-> Lower(text[i])], {" "})
    IN  Take(Strip(SubRuns(lowered, FALSE), {"-"}), SlugCap)

(***************************************************************************)
(* _mock_digest.                                                           *)
(***************************************************************************)
MockCap == 12
SubtitleCap == 40
OneLinerCap == 26
BulletCap == 22
ReadTimeDivisor == 1500

Digit(n) == CASE n = 0 -> "0" [] n = 1 -> "1" [] n = 2 -> "2" [] n = 3 -> "3"
              [] n = 4 -> "4" [] n = 5 -> "5" [] n = 6 -> "6" [] n = 7 -> "7"
              [] n = 8 -> "8" [] n = 9 -> "9"

\* str(n) for 0 <= n < 100
Str(n) == IF n < 10 THEN <<Digit(n)>> ELSE <<Digit(n \div 10), Digit(n % 10)>>

Max(a, b) == IF a >= b THEN a ELSE b

Unknown == <<"u", "n", "k", "n", "o", "w", "n">>

MockScores == [importance |-> 3, credibility |-> 3, freshness |-> 3]

\* the story of the item at 0-based position i of items[:12]
MockStory(item, i) ==
    [id |-> OrElse(_slugify(item.title), <<"i", "t", "e", "m", "-">> \o Str(i)),
     title |-> item.title,
     subtitle |-> Take(item.title, SubtitleCap),
     url |-> item.url,
     source |-> OrElse(item.source, Unknown),
     date |-> OrElse(item.date, Unknown),
     section |-> "Other",
     one_liner |-> Take(item.title, OneLinerCap),
     bullets |-> << Take(OrElse(item.snippet, item.title), BulletCap),
                    Take(<<"lai", "yuan", ":", " ">> \o OrElse(item.source, Unknown),
                         BulletCap),
                    Take(<<"ri", "qi", ":", " ">> \o OrElse(item.date, Unknown),
                         BulletCap) >>,
     why_it_matters |-> "needs LLM analysis",
     action_items |-> <<"configure OPENAI_API_KEY">>,
     read_time_min |->
         Max(1, Len(OrElse(item.content, OrElse(item.snippet, <<>>)))
                \div ReadTimeDivisor),
     scores |-> MockScores,
     tags |-> OrElse(item.tags, << <<"untagged">> >>),
     notes |-> "mock placeholder"]

\* the section item appended to section_map["Other"] for the same item
MockSectionItem(item, i) ==
    [ref_id |-> OrElse(_slugify(item.title), <<"i", "t", "e", "m", "-">> \o Str(i)),
     title |-> item.title,
     url |-> item.url,
     source |-> OrElse(item.source, Unknown),
     date |-> OrElse(item.date, Unknown),
     one_liner |-> Take(item.title, OneLinerCap),
     scores |-> MockScores,
     tags |-> item.tags]

\* datetime.now().strftime("%Y-%m-%d"): the runs of one behaviour happen on
\* one day
Today == <<"t", "o", "d", "a", "y">>

\* a stats object whose items_in is the number of stories
MockStatsOfStories(top_stories, all_count) ==
    [items_in |-> Len(top_stories),
     items_kept |-> Len(top_stories),
     top_stories_count |-> Len(top_stories),
     duplicates_count |-> 0]

\* lines 276-281: the stats of the mock digest
MockStats(top_stories, all_count) ==
    [items_in |-> all_count,
     items_kept |-> Len(top_stories),
     top_stories_count |-> Len(top_stories),
     duplicates_count |-> 0]

_mock_digest(its, all_count) ==
    LET head == Take(its, MockCap)
        top_stories == [i \in 1..Len(head) |-> MockStory(head[i], i - 1)]
        sec_items == [i \in 1..Len(head) |-> MockSectionItem(head[i], i - 1)]
        sections == IF head = <<>> THEN <<>>
                    ELSE << [name |-> "Other", items |-> sec_items] >>
    IN  [schema_version |-> "v1",
         generated_at |-> Today,
         stats |-> MockStats(top_stories, all_count),
         top_stories |-> top_stories,
         sections |-> sections,
         tag_index |-> <<>>,
         search_summaries |-> <<>>,
         duplicates |-> <<>>]

(***************************************************************************)
(* DigestOutput.model_validate: the constraints of gad.models.             *)
(***************************************************************************)
ScoreMin == 1
ScoreMax == 5
BulletsMin == 3
BulletsMax == 5

\* DigestScores: three integers, each with ge=1, le=5
ValidScores(sc) ==
    /\ sc.importance \in ScoreMin..ScoreMax
    /\ sc.credibility \in ScoreMin..ScoreMax
    /\ sc.freshness \in ScoreMin..ScoreMax

\* a TopStory without constraints
ValidTopStoryAny(st) == TRUE

\* TopStory: bullets has min_length=3, max_length=5; section is a plain str
ValidTopStory(st) ==
    /\ Len(st.bullets) \in BulletsMin..BulletsMax
    /\ ValidScores(st.scores)

\* Section: name is a plain str (SectionName = str); items are SectionItems
ValidSection(sec) ==
    \A i \in 1..Len(sec.items) : ValidScores(sec.items[i].scores)

\* whether DigestOutput.model_validate(data) accepts the parsed JSON object
ValidDigestOutput(data) ==
    /\ {"generated_at", "stats", "top_stories", "sections"} \subseteq DOMAIN data
    /\ \A i \in 1..Len(data.top_stories) : ValidTopStory(data.top_stories[i])
    /\ \A i \in 1..Len(data.sections) : ValidSection(data.sections[i])

\* the DigestOutput that model_validate builds from an accepted object: the
\* fields with a default are filled in
DigestOutput(data) ==
    [schema_version |->
         IF "schema_version" \in DOMAIN data THEN data.schema_version ELSE "v1",
     generated_at |-> data.generated_at,
     stats |-> data.stats,
     top_stories |-> data.top_stories,
     sections |-> data.sections,
     tag_index |-> IF "tag_index" \in DOMAIN data THEN data.tag_index ELSE <<>>,
     search_summaries |->
         IF "search_summaries" \in DOMAIN data THEN data.search_summaries ELSE <<>>,
     duplicates |-> IF "duplicates" \in DOMAIN data THEN data.duplicates ELSE <<>>]

(***************************************************************************)
(* The external generative service: what one chat completion can give.     *)
(***************************************************************************)
\* a story of a response, with the fields the checks of gad.models look at
\* left open
LlmStory(sec, nbullets, imp) ==
    [id |-> <<"a">>, title |-> <<"a">>, subtitle |-> <<"a">>, url |-> <<"c">>,
     source |-> Unknown, date |-> Unknown, section |-> sec, one_liner |-> <<"a">>,
     bullets |-> [i \in 1..nbullets |-> <<"b">>],
     why_it_matters |-> "generated", action_items |-> <<"try it">>,
     read_time_min |-> 1,
     scores |-> [importance |-> imp, credibility |-> 4, freshness |-> 3],
     tags |-> << <<"a">> >>, notes |-> "generated"]

\* a response object with one story, whose id is "a"; stats.items_kept and
\* the ref_id of the one section item are left open as well, and the
\* optional top-level fields are left out
LlmResponse(sec, nbullets, imp, kept, ref) ==
    [generated_at |-> <<"1">>,
     stats |-> [items_in |-> 1, items_kept |-> kept, top_stories_count |-> 1,
                duplicates_count |-> 0],
     top_stories |-> << LlmStory(sec, nbullets, imp) >>,
     sections |-> << [name |-> sec,
                      items |-> << [ref_id |-> ref, title |-> <<"a">>,
                                    url |-> <<"c">>, source |-> Unknown,
                                    date |-> Unknown, one_liner |-> <<"a">>,
                                    scores |-> [importance |-> 5, credibility |-> 4,
                                                freshness |-> 3],
                                    tags |-> <<>>] >>] >>]

\* the same with items_kept = 1 = len(top_stories) and ref_id = "a"
LlmData(sec, nbullets, imp) == LlmResponse(sec, nbullets, imp, 1, <<"a">>)

\* "raise": client.chat.completions.create (or the import) raises;
\* "text": the content is not JSON; "null": the content is None, read as "{}";
\* "json": the content is the JSON text of data.
Responses ==
    { [kind |-> "raise", data |-> <<>>],
      [kind |-> "text", data |-> <<>>],
      [kind |-> "null", data |-> <<>>],
      [kind |-> "json", data |-> LlmData("Models", 3, 5)],
      [kind |-> "json", data |-> LlmData("Models", 2, 5)],
      [kind |-> "json", data |-> LlmData("Models", 3, 6)] }

\* lines 336-349: whether the try block gets past model_validate
ResponseAccepted(resp) ==
    /\ resp.kind \in {"null", "json"}
    /\ ValidDigestOutput(resp.data)

(***************************************************************************)
(* The cache directory: a file digest_<h>.json per fingerprint h.          *)
(***************************************************************************)
\* output.model_dump_json(...): the complete JSON text of a DigestOutput
model_dump_json(d) == [complete |-> TRUE, doc |-> d]

\* what a write that failed after the file was opened leaves: an empty or
\* partial text, which is no JSON document
TruncatedFile == [complete |-> FALSE, doc |-> <<>>]

\* whether DigestOutput.model_validate_json(text) raises
Unreadable(file) == ~file.complete \/ ~ValidDigestOutput(file.doc)

CacheAbsent == [tag |-> "absent"]

\* a _cache_get that never finds the file
cache_get_absent(files, hh) == CacheAbsent

\* _cache_get(h) on the files of the cache directory: absent (None), a
\* DigestOutput, or the exception of model_validate_json
_cache_get(files, hh) ==
    IF hh \notin DOMAIN files THEN CacheAbsent
    ELSE IF Unreadable(files[hh]) THEN [tag |-> "raise"]
    ELSE [tag |-> "hit", val |-> DigestOutput(files[hh].doc)]

\* a _cache_put that writes nothing
cache_put_skip(files, hh, d) == files

\* a _cache_put that keeps a file that is already there
cache_put_keep(files, hh, d) ==
    IF hh \in DOMAIN files THEN files ELSE (hh :> model_dump_json(d)) @@ files

\* the files after a _cache_put(h, output) that succeeds
_cache_put(files, hh, d) == (hh :> model_dump_json(d)) @@ files

\* path.write_text can succeed, fail before the file is opened (the file is
\* as it was) or fail after it was opened for writing (the file is truncated)
WriteOutcomes == {"ok", "fail_open", "fail_write"}

FilesAfterPut(files, hh, d, outcome) ==
    CASE outcome = "ok" -> _cache_put(files, hh, d)
      [] outcome = "fail_open" -> files
      [] outcome = "fail_write" -> (hh :> TruncatedFile) @@ files

(***************************************************************************)
(* State.                                                                  *)
(***************************************************************************)
\* the runs of generate_digest_json; the sequential specification uses one
Procs == {"run1", "run2"}
SeqProcs == {"run1"}

VARIABLES
    files,      \* the cache directory: fingerprint -> file
    ncalls,     \* calls of generate_digest_json begun so far
    call,       \* per run: the position in generate_digest_json and its locals
    obs,        \* per run: what the current call has done so far
    served,     \* fingerprint -> the first digest a caching call returned for it
    last_put,   \* fingerprint -> the latest direct _cache_put under it
    store_ops,  \* _cache_put / _cache_get calls made directly on the store
    got,        \* the latest direct _cache_get and its result
    fp_in,      \* an item list and a rearrangement of it
    fp_out,     \* the fingerprints _items_hash gave for the two
    rank_in,    \* the arguments of a pre_rank call and the clock it reads
    rank_out,   \* what that pre_rank call returned
    mock_in,    \* the arguments of a _mock_digest call
    mock_out,   \* what that _mock_digest call returned
    answer,     \* the latest answer of the service and the call it went to
    score_in,   \* an item and the clock its scores are computed at
    score_out,  \* the three sub-scores and the composite score of the item
    cli_in,     \* the batch file and the options of a digest-json run
    cli,        \* the position of that run, its locals and what it wrote
    seen_file,  \* seen.jsonl: whether it exists, and its lines
    seen_q,     \* the latest is_duplicate call and what it returned
    library,    \* the article directories written so far
    ing,        \* the ingestion under way, and what the earlier ones did
    heap,       \* the objects of a caller of pre_rank and generate_digest_json
    fr          \* that caller: its position, its references, the heap it had

storeVars == <<last_put, store_ops, got>>
hashVars == <<fp_in, fp_out>>
progVars == <<files, ncalls, call, obs, served>>
rankVars == <<rank_in, rank_out>>
mockVars == <<mock_in, mock_out>>
scoreVars == <<score_in, score_out>>
\* the variables of the components other than pre_rank and _mock_digest
cliVars == <<cli_in, cli>>
\* the variables of the command-line runs and the seen store
seenVars == <<seen_file, seen_q>>
ingVars == <<library, ing>>
heapVars == <<heap, fr>>
restVars == <<cliVars, seenVars, ingVars, heapVars>>
moreVars == <<scoreVars, restVars>>
funVars == <<rankVars, mockVars, answer, moreVars>>
vars == <<files, ncalls, call, obs, served, last_put, store_ops, got, fp_in, fp_out,
          rank_in, rank_out, mock_in, mock_out, answer, score_in, score_out,
          cli_in, cli, seen_file, seen_q, library, ing, heap, fr>>

NoDigest == [schema_version |-> "none"]

IdleCall ==
    [pc |-> "idle", items |-> <<>>, all_count |-> 0, use_cache |-> FALSE,
     api_key |-> FALSE, h |-> <<>>, result |-> NoDigest, path |-> "none"]

IdleObs ==
    [llm_calls |-> 0, llm_failed |-> FALSE, gets |-> 0, puts |-> 0,
     mocks |-> 0, files0 |-> <<>>, bad_entry |-> FALSE]

NoGet == [fp |-> <<>>, res |-> CacheAbsent, valid |-> FALSE]

NoHashIn == [items |-> <<>>, shuffled |-> <<>>]
NoHashOut == [done |-> FALSE, of_items |-> <<>>, of_shuffled |-> <<>>]

NoRankIn == [items |-> <<>>, top_k |-> 0, now |-> [day |-> 0, sec |-> 0]]
NoRankOut == [done |-> FALSE, top |-> <<>>]

NoMockIn == [items |-> <<>>, all_count |-> 0]
NoMockOut == [done |-> FALSE, digest |-> NoDigest]

NoAnswer == [call_no |-> 0, resp |-> [kind |-> "none", data |-> <<>>]]

NoScoreIn ==
    [item |-> [title |-> <<>>, url |-> <<>>, source |-> <<>>, date |-> <<>>,
               snippet |-> <<>>, content |-> <<>>, tags |-> <<>>],
     now |-> [day |-> 0, sec |-> 0]]
NoScoreOut ==
    [done |-> FALSE, source_weight |-> 0, freshness |-> 0, content_length |-> 0,
     score |-> [tenths |-> 0, ulps |-> 0]]

\* no score of a single item is being computed
ScoreIdle ==
    /\ score_in = NoScoreIn
    /\ score_out = NoScoreOut

NoCliIn ==
    [file |-> [kind |-> "none"], top_k |-> 0, no_cache |-> FALSE, api_key |-> FALSE,
     now |-> [day |-> 0, sec |-> 0]]
NoCli ==
    [pc |-> "idle", items |-> <<>>, ranked |-> <<>>, pre_rank_calls |-> 0,
     generate_calls |-> 0, digest |-> NoDigest, out_file |-> NoDigest]

\* no digest-json run is under way
CliIdle ==
    /\ cli_in = NoCliIn
    /\ cli = NoCli

NoSeenFile == [exists |-> FALSE, lines |-> <<>>]
NoSeenQuery == [done |-> FALSE, url |-> <<>>, content |-> <<>>, dup |-> FALSE, reason |-> <<>>]

\* seen.jsonl is not there and no is_duplicate call was made
SeenIdle ==
    /\ seen_file = NoSeenFile
    /\ seen_q = NoSeenQuery

NoIngest ==
    [pc |-> "idle", command |-> "none", url |-> <<>>, text |-> <<>>, few_words |-> FALSE,
     force |-> FALSE, dry_run |-> FALSE, seen0 |-> NoSeenFile, library0 |-> {},
     count |-> 0, forced |-> FALSE]

\* nothing was ingested and no ingestion is under way
IngIdle ==
    /\ library = {}
    /\ ing = NoIngest

NoFrame ==
    [pc |-> "idle", items |-> 0, top_k |-> 0, now |-> [day |-> 0, sec |-> 0],
     use_cache |-> FALSE, api_key |-> FALSE, top |-> 0, payload |-> <<>>,
     heap0 |-> <<>>, heap1 |-> <<>>]

\* no object is allocated
HeapIdle ==
    /\ heap = <<>>
    /\ fr = NoFrame

\* the command-line runs and the seen store are at rest
RestIdle == CliIdle /\ SeenIdle /\ IngIdle /\ HeapIdle

\* the components other than pre_rank and _mock_digest are at rest
MoreIdle == ScoreIdle /\ RestIdle

\* no pre_rank and no _mock_digest call of its own is under way, and no
\* answer of the service is on record
FunIdle ==
    /\ rank_in = NoRankIn
    /\ rank_out = NoRankOut
    /\ mock_in = NoMockIn
    /\ mock_out = NoMockOut
    /\ answer = NoAnswer
    /\ MoreIdle

\* no call of generate_digest_json, no direct use of the cache store and no
\* _items_hash call is under way
CoreIdle ==
    /\ files = <<>>
    /\ ncalls = 0
    /\ call = [p \in Procs |-> IdleCall]
    /\ obs = [p \in Procs |-> IdleObs]
    /\ served = <<>>
    /\ last_put = <<>>
    /\ store_ops = 0
    /\ got = NoGet
    /\ fp_in = NoHashIn
    /\ fp_out = NoHashOut

Init ==
    /\ files = <<>>
    /\ ncalls = 0
    /\ call = [p \in Procs |-> IdleCall]
    /\ obs = [p \in Procs |-> IdleObs]
    /\ served = <<>>
    /\ last_put = <<>>
    /\ store_ops = 0
    /\ got = NoGet
    /\ fp_in = NoHashIn
    /\ fp_out = NoHashOut
    /\ FunIdle

(***************************************************************************)
(* The branches of generate_digest_json.                                   *)
(***************************************************************************)
\* line 304: `if use_cache:` before _cache_get
GetGuard(uc) == uc

\* a put that ignores use_cache
PutGuardAlways(uc) == TRUE

\* lines 312, 351, 359: `if use_cache:` before _cache_put
PutGuard(uc) == uc

\* a credential check that never takes the mock branch
NoCredentialNever(key) == FALSE

\* line 310: `if not settings.openai_api_key:`
NoCredential(key) == ~key

\* an except handler that tries the service again
OnFailureRetry == "key_check"

\* line 356: the except handler goes on to _mock_digest
OnFailure == "fallback"

(***************************************************************************)
(* generate_digest_json, step by step.                                     *)
(***************************************************************************)
\* lines 300-303: the call begins; settings are read, h = _items_hash(items)
Begin(p, its, n, uc, key) ==
    /\ call[p].pc = "idle"
    /\ ncalls < MaxCalls
    /\ ncalls' = ncalls + 1
    /\ call' = [call EXCEPT ![p] =
                   [pc |-> "cache_check", items |-> its, all_count |-> n,
                    use_cache |-> uc, api_key |-> key, h |-> _items_hash(its),
                    result |-> NoDigest, path |-> "none"]]
    /\ obs' = [obs EXCEPT ![p] = [IdleObs EXCEPT !.files0 = files]]
    /\ UNCHANGED <<files, served, storeVars, hashVars, funVars>>

\* lines 304-307: the cache check
CacheCheck(p) ==
    /\ call[p].pc = "cache_check"
    /\ IF GetGuard(call[p].use_cache)
       THEN LET r == _cache_get(files, call[p].h)
            IN  /\ call' = [call EXCEPT
                       ![p].pc = CASE r.tag = "hit" -> "done"
                                   [] r.tag = "raise" -> "raised"
                                   [] OTHER -> "key_check",
                       ![p].result = IF r.tag = "hit" THEN r.val ELSE @,
                       ![p].path = IF r.tag = "hit" THEN "hit" ELSE @]
                /\ obs' = [obs EXCEPT ![p].gets = @ + 1,
                                      ![p].bad_entry = (r.tag = "raise")]
       ELSE /\ call' = [call EXCEPT ![p].pc = "key_check"]
            /\ obs' = obs
    /\ UNCHANGED <<files, ncalls, served, storeVars, hashVars, funVars>>

\* lines 310-314: no API key, the mock digest is the result
MockNoKey(p) ==
    /\ call[p].pc = "key_check"
    /\ NoCredential(call[p].api_key)
    /\ call' = [call EXCEPT
           ![p].result = _mock_digest(call[p].items, call[p].all_count),
           ![p].path = "nokey",
           ![p].pc = IF PutGuard(call[p].use_cache) THEN "put_final" ELSE "done"]
    /\ obs' = [obs EXCEPT ![p].mocks = @ + 1]
    /\ UNCHANGED <<files, ncalls, served, storeVars, hashVars, funVars>>

\* lines 317-349: the request is built and sent once; resp is what comes back
CallService(p, resp) ==
    /\ call[p].pc = "key_check"
    /\ ~NoCredential(call[p].api_key)
    /\ IF ResponseAccepted(resp)
       THEN /\ call' = [call EXCEPT
                   ![p].result = DigestOutput(resp.data),
                   ![p].path = "llm",
                   ![p].pc = IF PutGuard(call[p].use_cache) THEN "put_try" ELSE "done"]
            /\ obs' = [obs EXCEPT ![p].llm_calls = @ + 1]
       ELSE /\ call' = [call EXCEPT ![p].pc = OnFailure]
            /\ obs' = [obs EXCEPT ![p].llm_calls = @ + 1, ![p].llm_failed = TRUE]
    /\ UNCHANGED <<files, ncalls, served, storeVars, hashVars, rankVars, mockVars, moreVars>>

\* lines 351-354: _cache_put inside the try block; its exception is caught
\* by the except clause of line 356
PutTry(p, outcome) ==
    /\ call[p].pc = "put_try"
    /\ files' = FilesAfterPut(files, call[p].h, call[p].result, outcome)
    /\ call' = [call EXCEPT ![p].pc = IF outcome = "ok" THEN "done" ELSE OnFailure]
    /\ obs' = [obs EXCEPT ![p].puts = @ + 1]
    /\ UNCHANGED <<ncalls, served, storeVars, hashVars, funVars>>

\* lines 356-358: the except handler builds the mock digest
Fallback(p) ==
    /\ call[p].pc = "fallback"
    /\ call' = [call EXCEPT
           ![p].result = _mock_digest(call[p].items, call[p].all_count),
           ![p].path = "fallback",
           ![p].pc = IF PutGuard(call[p].use_cache) THEN "put_final" ELSE "done"]
    /\ obs' = [obs EXCEPT ![p].mocks = @ + 1]
    /\ UNCHANGED <<files, ncalls, served, storeVars, hashVars, funVars>>

\* lines 313 and 360: _cache_put outside any try block; its exception leaves
\* generate_digest_json
PutFinal(p, outcome) ==
    /\ call[p].pc = "put_final"
    /\ files' = FilesAfterPut(files, call[p].h, call[p].result, outcome)
    /\ call' = [call EXCEPT ![p].pc = IF outcome = "ok" THEN "done" ELSE "raised"]
    /\ obs' = [obs EXCEPT ![p].puts = @ + 1]
    /\ UNCHANGED <<ncalls, served, storeVars, hashVars, funVars>>

\* the caller takes the result (or the exception); the run is over
Return(p) ==
    /\ call[p].pc \in {"done", "raised"}
    /\ served' = IF /\ call[p].pc = "done"
                    /\ call[p].use_cache
                    /\ call[p].h \notin DOMAIN served
                 THEN (call[p].h :> call[p].result) @@ served
                 ELSE served
    /\ call' = [call EXCEPT ![p] = IdleCall]
    /\ obs' = [obs EXCEPT ![p] = IdleObs]
    /\ UNCHANGED <<files, ncalls, storeVars, hashVars, rankVars, mockVars, moreVars>>

Step(p) ==
    \/ \E its \in ItemLists, uc \in BOOLEAN, key \in BOOLEAN :
           \E n \in {Len(its), Len(its) + 1} : Begin(p, its, n, uc, key)
    \/ CacheCheck(p)
    \/ MockNoKey(p)
    \/ \E resp \in Responses : CallService(p, resp) /\ UNCHANGED answer
    \/ \E outcome \in WriteOutcomes : PutTry(p, outcome)
    \/ Fallback(p)
    \/ \E outcome \in WriteOutcomes : PutFinal(p, outcome)
    \/ Return(p) /\ UNCHANGED answer

\* runs of generate_digest_json one after the other
Next ==
    \E p \in SeqProcs : Step(p)

Spec == Init /\ [][Next]_vars

(***************************************************************************)
(* generate_digest_json with a service that also answers objects whose     *)
(* stats, section labels or ref_ids are off; the answer is kept on record  *)
(* until the call is over.                                                 *)
(***************************************************************************)
\* the answers of Responses and three more JSON objects: a section label
\* outside the ten of the prompt, an items_kept that is not the number of
\* top stories, a ref_id that is the id of no top story
ServiceResponses ==
    Responses \cup
    { [kind |-> "json", data |-> LlmData("Gossip", 3, 5)],
      [kind |-> "json", data |-> LlmResponse("Models", 3, 5, 2, <<"a">>)],
      [kind |-> "json", data |-> LlmResponse("Models", 3, 5, 1, <<"b">>)] }

\* longest item list of these calls
MaxServiceItems == 1

ServiceLists == SeqsUpTo(ItemPool, MaxServiceItems)

StepService(p) ==
    \/ \E its \in ServiceLists, uc \in BOOLEAN, key \in BOOLEAN :
           Begin(p, its, Len(its), uc, key)
    \/ CacheCheck(p)
    \/ MockNoKey(p)
    \/ \E resp \in ServiceResponses :
           /\ CallService(p, resp)
           /\ answer' = [call_no |-> ncalls, resp |-> resp]
    \/ \E outcome \in WriteOutcomes : PutTry(p, outcome)
    \/ Fallback(p)
    \/ \E outcome \in WriteOutcomes : PutFinal(p, outcome)
    \/ Return(p) /\ answer' = NoAnswer

NextService ==
    \E p \in SeqProcs : StepService(p)

SpecService == Init /\ [][NextService]_vars

(***************************************************************************)
(* Two runs of generate_digest_json at once.  path.write_text opens the    *)
(* file for writing, which empties it, and then writes the text: a run     *)
(* that reads the file in between finds it empty.  Writes do not fail      *)
(* here.                                                                   *)
(***************************************************************************)
\* path.write_text, first half: the file is opened with mode "w"
PutOpen(p) ==
    /\ call[p].pc \in {"put_try", "put_final"}
    /\ files' = (call[p].h :> TruncatedFile) @@ files
    /\ call' = [call EXCEPT ![p].pc = "put_write"]
    /\ UNCHANGED <<ncalls, obs, served, storeVars, hashVars, funVars>>

\* path.write_text, second half: the text is written and the file closed
PutWrite(p) ==
    /\ call[p].pc = "put_write"
    /\ files' = _cache_put(files, call[p].h, call[p].result)
    /\ last_put' = (call[p].h :> call[p].result) @@ last_put
    /\ call' = [call EXCEPT ![p].pc = "done"]
    /\ obs' = [obs EXCEPT ![p].puts = @ + 1]
    /\ UNCHANGED <<ncalls, served, store_ops, got, hashVars, funVars>>

StepConc(p) ==
    \/ \E its \in ServiceLists, uc \in BOOLEAN, key \in BOOLEAN :
           Begin(p, its, Len(its), uc, key)
    \/ CacheCheck(p)
    \/ MockNoKey(p)
    \/ \E resp \in Responses : CallService(p, resp) /\ UNCHANGED answer
    \/ PutOpen(p)
    \/ PutWrite(p)
    \/ Fallback(p)
    \/ Return(p) /\ UNCHANGED answer

\* the steps of the two runs in any order
NextConc ==
    \E p \in Procs : StepConc(p)

SpecConc == Init /\ [][NextConc]_vars

(***************************************************************************)
(* The cache store used directly: any sequence of _cache_put and           *)
(* _cache_get calls.                                                       *)
(***************************************************************************)
\* number of direct store calls in one behaviour
MaxStoreOps == 3

\* fingerprints of the item lists of at most one item
StoreKeys == {_items_hash(its) : its \in SeqsUpTo(ItemPool, 1)}

\* digests to store: the mock digests of those lists and a generated one
StoreDigests ==
    {_mock_digest(its, Len(its)) : its \in SeqsUpTo(ItemPool, 1)}
    \cup {DigestOutput(LlmData("Models", 3, 5))}

\* the record of a _cache_put(hh, d) call: how it ended, and whether the file
\* held another readable digest before it
PutRecord(hh, d, outcome) ==
    (hh :> [ok |-> outcome = "ok",
            digest |-> d,
            overwrote |-> /\ hh \in DOMAIN files
                          /\ ~Unreadable(files[hh])
                          /\ files[hh] # model_dump_json(d)]) @@ last_put

StorePut(hh, d, outcome) ==
    /\ store_ops < MaxStoreOps
    /\ store_ops' = store_ops + 1
    /\ files' = FilesAfterPut(files, hh, d, outcome)
    /\ last_put' = PutRecord(hh, d, outcome)
    /\ got' = NoGet
    /\ UNCHANGED <<ncalls, call, obs, served, hashVars, funVars>>

StoreGet(hh) ==
    /\ store_ops < MaxStoreOps
    /\ store_ops' = store_ops + 1
    /\ got' = [fp |-> hh, res |-> _cache_get(files, hh), valid |-> TRUE]
    /\ UNCHANGED <<files, ncalls, call, obs, served, last_put, hashVars, funVars>>

NextCache ==
    \/ \E hh \in StoreKeys, d \in StoreDigests, outcome \in WriteOutcomes :
           StorePut(hh, d, outcome)
    \/ \E hh \in StoreKeys : StoreGet(hh)

SpecCache == Init /\ [][NextCache]_vars

(***************************************************************************)
(* _items_hash applied to an item list and to a rearrangement of it.       *)
(***************************************************************************)
\* the items to fingerprint: those of ItemPool and two whose "title|url"
\* labels are the same although their titles and urls differ
HashPool ==
    ItemPool \cup
    { DigestItemInput(<<"a", "|", "b">>, <<"c">>, None, None, None, None, <<>>),
      DigestItemInput(<<"a">>, <<"b", "|", "c">>, None, None, None, None, <<>>) }

HashLists == SeqsUpTo(HashPool, MaxItems + 1)

Count(its, x) == Cardinality({i \in 1..Len(its) : its[i] = x})

\* every list with the same items the same number of times
Rearrangements(its) ==
    {q \in HashLists : /\ Len(q) = Len(its)
                       /\ \A x \in HashPool : Count(q, x) = Count(its, x)}

InitHash ==
    /\ files = <<>>
    /\ ncalls = 0
    /\ call = [p \in Procs |-> IdleCall]
    /\ obs = [p \in Procs |-> IdleObs]
    /\ served = <<>>
    /\ last_put = <<>>
    /\ store_ops = 0
    /\ got = NoGet
    /\ fp_in \in UNION {{[items |-> its, shuffled |-> q] : q \in Rearrangements(its)} :
                        its \in HashLists}
    /\ fp_out = NoHashOut
    /\ FunIdle

HashBoth ==
    /\ ~fp_out.done
    /\ fp_out' = [done |-> TRUE,
                  of_items |-> _items_hash(fp_in.items),
                  of_shuffled |-> _items_hash(fp_in.shuffled)]
    /\ UNCHANGED <<progVars, storeVars, fp_in, funVars>>

NextHash == HashBoth

SpecHash == InitHash /\ [][NextHash]_vars

(***************************************************************************)
(* The local scores of pre_rank: _source_weight, _freshness_score and      *)
(* _content_length_score.                                                  *)
(***************************************************************************)
\* _SOURCE_WEIGHTS in the order of the dict literal, which is the order
\* `.items()` walks it in
_SOURCE_WEIGHTS ==
    << <<<<"o", "p", "e", "n", "a", "i">>, 5>>,
       <<<<"a", "n", "t", "h", "r", "o", "p", "i", "c">>, 5>>,
       <<<<"g", "o", "o", "g", "l", "e">>, 5>>,
       <<<<"d", "e", "e", "p", "m", "i", "n", "d">>, 5>>,
       <<<<"m", "e", "t", "a">>, 5>>,
       <<<<"m", "i", "c", "r", "o", "s", "o", "f", "t">>, 4>>,
       <<<<"n", "v", "i", "d", "i", "a">>, 4>>,
       <<<<"a", "r", "x", "i", "v">>, 4>>,
       <<<<"h", "u", "g", "g", "i", "n", "g", "f", "a", "c", "e">>, 4>>,
       <<<<"s", "t", "a", "b", "i", "l", "i", "t", "y">>, 4>>,
       <<<<"m", "i", "s", "t", "r", "a", "l">>, 4>>,
       <<<<"c", "o", "h", "e", "r", "e">>, 4>>,
       <<<<"t", "o", "g", "e", "t", "h", "e", "r">>, 3>>,
       <<<<"g", "i", "t", "h", "u", "b">>, 3>>,
       <<<<"t", "e", "c", "h", "c", "r", "u", "n", "c", "h">>, 3>>,
       <<<<"t", "h", "e", "v", "e", "r", "g", "e">>, 3>>,
       <<<<"v", "e", "n", "t", "u", "r", "e", "b", "e", "a", "t">>, 3>>,
       <<<<"h", "a", "c", "k", "e", "r", " ", "n", "e", "w", "s">>, 2>>,
       <<<<"r", "e", "d", "d", "i", "t">>, 2>> >>

\* `key in text` for two str values
Contains(text, key) ==
    \E i \in 1..(Len(text) - Len(key) + 1) : SubSeq(text, i, i + Len(key) - 1) = key

\* str.lower()
LowerText(text) == [i \in 1..Len(text) |-> Lower(text[i])]

\* the weight of the first key of _SOURCE_WEIGHTS found in the source label
\* or in the url; 2 when none is
RECURSIVE FirstWeight(_, _, _)
FirstWeight(table, src, url) ==
    IF table = <<>> THEN 2
    ELSE IF Contains(src, Head(table)[1]) \/ Contains(url, Head(table)[1])
         THEN Head(table)[2]
         ELSE FirstWeight(Tail(table), src, url)

_source_weight(item) ==
    FirstWeight(_SOURCE_WEIGHTS, LowerText(OrElse(item.source, <<>>)), LowerText(item.url))

IsDigit(c) == c \in {"0", "1", "2", "3", "4", "5", "6", "7", "8", "9"}

DigitVal(c) ==
    CASE c = "0" -> 0 [] c = "1" -> 1 [] c = "2" -> 2 [] c = "3" -> 3
      [] c = "4" -> 4 [] c = "5" -> 5 [] c = "6" -> 6 [] c = "7" -> 7
      [] c = "8" -> 8 [] c = "9" -> 9 [] OTHER -> 0

\* int() of a run of decimal digits
RECURSIVE IntOf(_)
IntOf(ds) ==
    IF ds = <<>> THEN 0 ELSE 10 * IntOf(SubSeq(ds, 1, Len(ds) - 1)) + DigitVal(ds[Len(ds)])

AllDigits(ds) == \A i \in 1..Len(ds) : IsDigit(ds[i])

\* str.split(sep) for a one-character separator
RECURSIVE Split(_, _)
Split(text, sep) ==
    IF \A i \in 1..Len(text) : text[i] # sep THEN <<text>>
    ELSE LET k == CHOOSE i \in 1..Len(text) :
                      text[i] = sep /\ \A j \in 1..(i - 1) : text[j] # sep
         IN  <<SubSeq(text, 1, k - 1)>> \o Split(SubSeq(text, k + 1, Len(text)), sep)

IsLeap(y) == (y % 4 = 0 /\ y % 100 # 0) \/ y % 400 = 0

DaysInMonth(y, m) ==
    IF m = 2 THEN (IF IsLeap(y) THEN 29 ELSE 28)
    ELSE IF m \in {4, 6, 9, 11} THEN 30 ELSE 31

RECURSIVE DaysBeforeMonth(_, _)
DaysBeforeMonth(y, m) ==
    IF m = 1 THEN 0 ELSE DaysBeforeMonth(y, m - 1) + DaysInMonth(y, m - 1)

\* date(y, m, d).toordinal(): the day number in the proleptic Gregorian
\* calendar
Ordinal(y, m, d) ==
    (y - 1) * 365 + ((y - 1) \div 4) - ((y - 1) \div 100) + ((y - 1) \div 400)
    + DaysBeforeMonth(y, m) + d

\* a one- or two-digit field of a strptime format with a value in lo..hi
FieldOk(ds, lo, hi) ==
    /\ Len(ds) \in {1, 2}
    /\ AllDigits(ds)
    /\ IntOf(ds) >= lo
    /\ IntOf(ds) <= hi

NoParse == [ok |-> FALSE, day |-> 0, sec |-> 0]

\* the "%Y-%m-%d" part: a four-digit year, a month and a day of that month
DateFieldsOk(f) ==
    /\ Len(f) = 3
    /\ Len(f[1]) = 4
    /\ AllDigits(f[1])
    /\ IntOf(f[1]) >= 1
    /\ FieldOk(f[2], 1, 12)
    /\ FieldOk(f[3], 1, DaysInMonth(IntOf(f[1]), IntOf(f[2])))

DateOrdinal(f) == Ordinal(IntOf(f[1]), IntOf(f[2]), IntOf(f[3]))

\* datetime.strptime(text, "%Y-%m-%d"): a ValueError is NoParse
StrptimeDate(text) ==
    LET f == Split(text, "-")
    IN  IF DateFieldsOk(f) THEN [ok |-> TRUE, day |-> DateOrdinal(f), sec |-> 0]
        ELSE NoParse

\* datetime.strptime(text, "%Y-%m-%dT%H:%M:%S")
StrptimeDateTime(text) ==
    LET halves == Split(text, "T")
        f == Split(halves[1], "-")
        t == Split(halves[2], ":")
    IN  IF Len(halves) # 2 THEN NoParse
        ELSE IF /\ DateFieldsOk(f)
                /\ Len(t) = 3
                /\ FieldOk(t[1], 0, 23)
                /\ FieldOk(t[2], 0, 59)
                /\ FieldOk(t[3], 0, 59)
             THEN [ok |-> TRUE, day |-> DateOrdinal(f),
                   sec |-> 3600 * IntOf(t[1]) + 60 * IntOf(t[2]) + IntOf(t[3])]
             ELSE NoParse

\* datetime.strptime(text, "%Y-%m-%dT%H:%M:%SZ"): the same with a literal "Z"
\* after the seconds
StrptimeDateTimeZ(text) ==
    IF Len(text) >= 1 /\ text[Len(text)] = "Z"
    THEN StrptimeDateTime(SubSeq(text, 1, Len(text) - 1))
    ELSE NoParse

\* lines 62-69: the three formats are tried in turn on item.date[:19]; the
\* result of the for-else is NoParse when all three raise ValueError
ParseDate(text) ==
    LET cut == Take(text, 19)
    IN  IF StrptimeDate(cut).ok THEN StrptimeDate(cut)
        ELSE IF StrptimeDateTime(cut).ok THEN StrptimeDateTime(cut)
        ELSE StrptimeDateTimeZ(cut)

\* (now - dt).days: timedelta normalises to 0 <= seconds < 86400, so days is
\* the floor of the difference
DaysOld(now, dt) == (now.day - dt.day) - (IF now.sec < dt.sec THEN 1 ELSE 0)

\* the five scores are the floats 1.0 .. 5.0; the model keeps the integer
_freshness_score(item, now) ==
    IF item.date = None THEN 2
    ELSE LET dt == ParseDate(item.date)
         IN  IF ~dt.ok THEN 2
             ELSE IF DaysOld(now, dt) <= 1 THEN 5
             ELSE IF DaysOld(now, dt) <= 3 THEN 4
             ELSE IF DaysOld(now, dt) <= 7 THEN 3
             ELSE IF DaysOld(now, dt) <= 30 THEN 2
             ELSE 1

_content_length_score(item) ==
    LET length == Len(OrElse(item.content, OrElse(item.snippet, <<>>)))
    IN  IF length > 5000 THEN 5
        ELSE IF length > 2000 THEN 4
        ELSE IF length > 500 THEN 3
        ELSE IF length > 100 THEN 2
        ELSE 1

(***************************************************************************)
(* pre_rank.                                                               *)
(***************************************************************************)
\* lines 109-113: score = 0.4 * sw + 0.3 * fresh + 0.3 * length in IEEE 754
\* double arithmetic, two rounded products more and two rounded sums.  The
\* result is the double nearest to (4 * sw + 3 * fresh + 3 * length) / 10,
\* or the double next below it, or the double next above it; these are the
\* (sw, fresh, length) whose sum comes out one unit in the last place low
RoundedDown ==
    { <<2, 2, 4>>, <<2, 3, 3>>, <<2, 5, 1>>, <<2, 5, 3>>, <<4, 4, 1>>,
      <<4, 4, 3>>, <<5, 1, 1>>, <<5, 1, 3>>, <<5, 3, 1>> }

\* and these are the ones whose sum comes out one unit in the last place high
RoundedUp ==
    { <<2, 1, 1>>, <<2, 1, 2>>, <<3, 1, 1>>, <<3, 1, 3>>, <<3, 2, 2>>,
      <<3, 2, 5>>, <<3, 4, 2>>, <<3, 4, 3>>, <<3, 4, 4>>, <<3, 4, 5>>,
      <<3, 5, 2>>, <<3, 5, 4>>, <<4, 1, 5>>, <<4, 2, 2>>, <<4, 2, 4>>,
      <<5, 4, 2>> }

\* a score with the weights 0.3, 0.4, 0.3
CompositeScoreOtherWeights(sw, fresh, length) ==
    [tenths |-> 3 * sw + 4 * fresh + 3 * length, ulps |-> 0]

\* the float `score`: the tenths of the exact sum and the units in the last
\* place the computed double is away from it
CompositeScore(sw, fresh, length) ==
    [tenths |-> 4 * sw + 3 * fresh + 3 * length,
     ulps |-> IF <<sw, fresh, length>> \in RoundedDown THEN 0 - 1
              ELSE IF <<sw, fresh, length>> \in RoundedUp THEN 1
              ELSE 0]

\* x < y for two such floats
FloatLess(x, y) ==
    \/ x.tenths < y.tenths
    \/ x.tenths = y.tenths /\ x.ulps < y.ulps

Score(item, now) ==
    CompositeScore(_source_weight(item), _freshness_score(item, now),
                   _content_length_score(item))

\* line 114: the (score, idx, item) tuples in input order
Scored(items, now) ==
    [i \in 1..Len(items) |->
        [score |-> Score(items[i], now), idx |-> i - 1, item |-> items[i]]]

\* line 116: key(a) < key(b) for key = (-score, idx)
KeyLess(a, b) ==
    \/ FloatLess(b.score, a.score)
    \/ a.score = b.score /\ a.idx < b.idx

\* one step of a stable insertion sort by that key
RECURSIVE InsertByKey(_, _)
InsertByKey(t, ts) ==
    IF ts = <<>> THEN <<t>>
    ELSE IF KeyLess(t, Head(ts)) THEN <<t>> \o ts
    ELSE <<Head(ts)>> \o InsertByKey(t, Tail(ts))

\* list.sort(key=lambda t: (-t[0], t[1]))
RECURSIVE SortScored(_)
SortScored(ts) ==
    IF ts = <<>> THEN <<>>
    ELSE InsertByKey(ts[Len(ts)], SortScored(SubSeq(ts, 1, Len(ts) - 1)))

\* s[:k] without the cut
SliceAll(s, k) == s

\* s[:k]; a negative k counts from the end
SliceTo(s, k) == IF k >= 0 THEN Take(s, k) ELSE Take(s, Max(0, Len(s) + k))

pre_rank(items, top_k, now) ==
    LET top == SliceTo(SortScored(Scored(items, now)), top_k)
    IN  [i \in 1..Len(top) |-> top[i].item]

\* longest item list handed to pre_rank
MaxRankItems == 3

\* a text of n characters
Chars(n) == [i \in 1..n |-> "x"]

\* the candidates: two of an unknown source with neither date nor text, one
\* of an unknown source that is months old and has a text of 101 characters,
\* one of a known source a day old, one whose url names a known source
RankPool ==
    { DigestItemInput(<<"a">>, <<"c">>, None, None, None, None, <<>>),
      DigestItemInput(<<"b">>, <<"c">>, None, None, None, None, <<>>),
      DigestItemInput(<<"c">>, <<"d">>, None, <<"2", "0", "2", "6", "-", "0", "9", "-", "0", "1">>, None, Chars(101), <<>>),
      DigestItemInput(<<"d">>, <<"c">>, <<"O", "p", "e", "n", "A", "I">>, <<"2", "0", "2", "6", "-", "1", "1", "-", "0", "1", "T", "0", "9", ":", "0", "0", ":", "0", "0", "Z">>,
                      None, Chars(101), <<>>),
      DigestItemInput(<<"a">>, <<"g", "i", "t", "h", "u", "b", ".", "c", "o", "m">>, None, None, <<"c", "c">>,
                      None, <<>>) }

\* the instants datetime.now(timezone.utc) gives a pre_rank call
Clock ==
    { [day |-> Ordinal(2026, 11, 2), sec |-> 43200],
      [day |-> Ordinal(2026, 11, 4), sec |-> 0] }

RankInputs ==
    { [items |-> its, top_k |-> k, now |-> t] :
        its \in SeqsUpTo(RankPool, MaxRankItems),
        k \in (0 - 1)..(MaxRankItems + 1),
        t \in Clock }

InitRank ==
    /\ files = <<>>
    /\ ncalls = 0
    /\ call = [p \in Procs |-> IdleCall]
    /\ obs = [p \in Procs |-> IdleObs]
    /\ served = <<>>
    /\ last_put = <<>>
    /\ store_ops = 0
    /\ got = NoGet
    /\ fp_in = NoHashIn
    /\ fp_out = NoHashOut
    /\ rank_in \in RankInputs
    /\ rank_out = NoRankOut
    /\ mock_in = NoMockIn
    /\ mock_out = NoMockOut
    /\ answer = NoAnswer
    /\ MoreIdle

PreRank ==
    /\ ~rank_out.done
    /\ rank_out' = [done |-> TRUE,
                    top |-> pre_rank(rank_in.items, rank_in.top_k, rank_in.now)]
    /\ UNCHANGED <<progVars, storeVars, hashVars, rank_in, mockVars, answer, moreVars>>

NextRank == PreRank

SpecRank == InitRank /\ [][NextRank]_vars

(***************************************************************************)
(* _mock_digest applied to an item list and a count.                       *)
(***************************************************************************)
\* the items: a plain one, one whose title has the same slug "a", one whose
\* title has an empty slug, and one with every optional field set
MockPool ==
    { DigestItemInput(<<"a">>, <<"c">>, None, None, None, None, <<>>),
      DigestItemInput(<<"a", "!">>, <<"d">>, None, None, None, None, <<>>),
      DigestItemInput(<<"!">>, <<"c">>, None, None, None, None, <<>>),
      DigestItemInput(<<"B", "!">>, <<"d">>, <<"d">>, <<"1">>, <<"c", "c">>, <<"b">>,
                      << <<"a">> >>) }

\* the lists are a free prefix of up to MaxMockPrefix items followed by up
\* to MaxMockPad copies of one item
MaxMockPrefix == 2
MaxMockPad == 13

Repeat(x, n) == [i \in 1..n |-> x]

MockLists ==
    { pre \o Repeat(x, n) :
        pre \in SeqsUpTo(MockPool, MaxMockPrefix), x \in MockPool, n \in 0..MaxMockPad }

\* the call of the CLI for 50 candidates and top_k = 30: the 30 ranked items
\* and all_count = 50 (cli.py lines 552-560)
ScenarioItems == 30
ScenarioCount == 50

MockInputs ==
    UNION { { [items |-> its, all_count |-> n] : n \in {0, Len(its), Len(its) + 1} } :
            its \in MockLists }
    \cup
    { [items |-> Repeat(x, ScenarioItems), all_count |-> ScenarioCount] : x \in MockPool }

InitMock ==
    /\ files = <<>>
    /\ ncalls = 0
    /\ call = [p \in Procs |-> IdleCall]
    /\ obs = [p \in Procs |-> IdleObs]
    /\ served = <<>>
    /\ last_put = <<>>
    /\ store_ops = 0
    /\ got = NoGet
    /\ fp_in = NoHashIn
    /\ fp_out = NoHashOut
    /\ rank_in = NoRankIn
    /\ rank_out = NoRankOut
    /\ mock_in \in MockInputs
    /\ mock_out = NoMockOut
    /\ answer = NoAnswer
    /\ MoreIdle

MockDigest ==
    /\ ~mock_out.done
    /\ mock_out' = [done |-> TRUE,
                    digest |-> _mock_digest(mock_in.items, mock_in.all_count)]
    /\ UNCHANGED <<progVars, storeVars, hashVars, rankVars, mock_in, answer, moreVars>>

NextMock == MockDigest

SpecMock == InitMock /\ [][NextMock]_vars

(***************************************************************************)
(* The scores of one item: _source_weight, _freshness_score,               *)
(* _content_length_score and the sum of pre_rank, at one clock reading.    *)
(***************************************************************************)
ScoreSources == {None, <<"O", "p", "e", "n", "A", "I">>, <<"a", "r", "X", "i", "v">>, <<"R", "e", "d", "d", "i", "t">>}
ScoreUrls == {<<"c">>, <<"g", "i", "t", "h", "u", "b", ".", "c", "o", "m">>}

\* no date, a text that is no date, a day that does not exist, and dates
\* zero to nine weeks before the clock readings, one with a time of day
ScoreDates ==
    {None, <<"1">>, <<"2", "0", "2", "6", "-", "0", "2", "-", "3", "0">>, <<"2", "0", "2", "6", "-", "1", "1", "-", "0", "3">>, <<"2", "0", "2", "6", "-", "1", "1", "-", "0", "1", "T", "0", "9", ":", "0", "0", ":", "0", "0", "Z">>,
     <<"2", "0", "2", "6", "-", "1", "0", "-", "3", "0">>, <<"2", "0", "2", "6", "-", "0", "9", "-", "0", "1">>, <<"2", "0", "2", "6", "-", "1", "0", "-", "1", "4">>}

\* (content, snippet) pairs on both sides of every length threshold
ScoreTexts ==
    { <<None, None>>, <<None, Chars(50)>>, <<Chars(6000), Chars(50)>>,
      <<Chars(100), None>>, <<Chars(101), None>>, <<Chars(500), None>>,
      <<None, Chars(501)>>, <<Chars(2000), None>>, <<Chars(2001), None>>,
      <<Chars(5000), None>>, <<Chars(5001), None>> }

ScorePool ==
    { DigestItemInput(<<"a">>, u, src, d, tx[2], tx[1], <<>>) :
        src \in ScoreSources, u \in ScoreUrls, d \in ScoreDates, tx \in ScoreTexts }

\* datetime.now(timezone.utc) at two times of one day
ScoreClock ==
    { [day |-> Ordinal(2026, 11, 3), sec |-> 8 * 3600],
      [day |-> Ordinal(2026, 11, 3), sec |-> 10 * 3600] }

InitScore ==
    /\ CoreIdle
    /\ rank_in = NoRankIn
    /\ rank_out = NoRankOut
    /\ mock_in = NoMockIn
    /\ mock_out = NoMockOut
    /\ answer = NoAnswer
    /\ score_in \in {[item |-> it, now |-> t] : it \in ScorePool, t \in ScoreClock}
    /\ score_out = NoScoreOut
    /\ RestIdle

\* lines 109-113 for one item
ScoreItem ==
    /\ ~score_out.done
    /\ score_out' =
           [done |-> TRUE,
            source_weight |-> _source_weight(score_in.item),
            freshness |-> _freshness_score(score_in.item, score_in.now),
            content_length |-> _content_length_score(score_in.item),
            score |-> Score(score_in.item, score_in.now)]
    /\ UNCHANGED <<progVars, storeVars, hashVars, rankVars, mockVars, answer, score_in,
                   restVars>>

NextScore == ScoreItem

SpecScore == InitScore /\ [][NextScore]_vars

(***************************************************************************)
(* _items_hash applied to two item lists with the same set of labels.      *)
(***************************************************************************)
\* the "title|url" labels of a list, as a set
LabelSet(its) == {ItemKey(its[i]) : i \in 1..Len(its)}

\* every list with the same set of labels, in any order and with any number
\* of occurrences of each
SameLabels(its) == {q \in HashLists : LabelSet(q) = LabelSet(its)}

InitHashSets ==
    /\ files = <<>>
    /\ ncalls = 0
    /\ call = [p \in Procs |-> IdleCall]
    /\ obs = [p \in Procs |-> IdleObs]
    /\ served = <<>>
    /\ last_put = <<>>
    /\ store_ops = 0
    /\ got = NoGet
    /\ fp_in \in UNION {{[items |-> its, shuffled |-> q] : q \in SameLabels(its)} :
                        its \in HashLists}
    /\ fp_out = NoHashOut
    /\ FunIdle

SpecHashSets == InitHashSets /\ [][NextHash]_vars

(***************************************************************************)
(* The digest-json command: a batch file is read and validated, the items  *)
(* are ranked, the digest is generated and written to digest.json.         *)
(***************************************************************************)
\* JSON values as json.loads gives them
JStr(s) == [t |-> "str", v |-> s]
JNum(n) == [t |-> "num", v |-> n]
JArr(a) == [t |-> "arr", v |-> a]
JObj(o) == [t |-> "obj", v |-> o]

\* a required field of type str
HasStr(o, k) == k \in DOMAIN o /\ o[k].t = "str"

\* an Optional[str] field: left out, null or a string
OptOk(o, k) == k \notin DOMAIN o \/ o[k].t \in {"str", "null"}
OptVal(o, k) == IF k \in DOMAIN o /\ o[k].t = "str" THEN o[k].v ELSE None

\* tags: list[str] with default []
TagsOk(o) ==
    \/ "tags" \notin DOMAIN o
    \/ /\ o["tags"].t = "arr"
       /\ \A i \in DOMAIN o["tags"].v : o["tags"].v[i].t = "str"
TagsVal(o) ==
    IF "tags" \in DOMAIN o
    THEN [i \in DOMAIN o["tags"].v |-> o["tags"].v[i].v]
    ELSE <<>>

\* DigestItemInput.model_validate(r): the item, or a ValidationError
model_validate(r) ==
    IF /\ r.t = "obj"
       /\ HasStr(r.v, "title")
       /\ HasStr(r.v, "url")
       /\ \A k \in {"source", "date", "snippet", "content", "author"} : OptOk(r.v, k)
       /\ TagsOk(r.v)
    THEN [ok |-> TRUE,
          item |-> DigestItemInput(r.v["title"].v, r.v["url"].v, OptVal(r.v, "source"),
                                   OptVal(r.v, "date"), OptVal(r.v, "snippet"),
                                   OptVal(r.v, "content"), TagsVal(r.v))]
    ELSE [ok |-> FALSE]

\* a loader that leaves malformed records out
LoadBatchSkipping(file) ==
    CASE file.kind = "none" -> [status |-> "exit1", items |-> <<>>]
      [] file.kind = "missing" -> [status |-> "exit1", items |-> <<>>]
      [] file.kind = "text" -> [status |-> "error", items |-> <<>>]
      [] file.kind = "json" /\ file.raw.t # "arr" -> [status |-> "exit1", items |-> <<>>]
      [] OTHER ->
           LET good == SelectSeq(file.raw.v, LAMBDA r : model_validate(r).ok)
           IN  [status |-> "loaded", items |-> [i \in DOMAIN good |-> model_validate(good[i]).item]]

\* cli.py lines 500-513 and 541-543: no --input (and no --date) and a file
\* that is not there end the run with code 1; json.loads raises on a text
\* that is not JSON; a JSON value that is not a list ends it with code 1;
\* model_validate raises on the first malformed record
LoadBatch(file) ==
    CASE file.kind = "none" -> [status |-> "exit1", items |-> <<>>]
      [] file.kind = "missing" -> [status |-> "exit1", items |-> <<>>]
      [] file.kind = "text" -> [status |-> "error", items |-> <<>>]
      [] file.kind = "json" /\ file.raw.t # "arr" -> [status |-> "exit1", items |-> <<>>]
      [] OTHER ->
           IF \A i \in DOMAIN file.raw.v : model_validate(file.raw.v[i]).ok
           THEN [status |-> "loaded",
                 items |-> [i \in DOMAIN file.raw.v |-> model_validate(file.raw.v[i]).item]]
           ELSE [status |-> "error", items |-> <<>>]

\* the put of lines 313 and 360, outside any try block
FinalPut(fs, hh, d, uc, outcome) ==
    IF ~PutGuard(uc) THEN [raised |-> FALSE, result |-> d, files |-> fs]
    ELSE [raised |-> outcome # "ok",
          result |-> IF outcome = "ok" THEN d ELSE NoDigest,
          files |-> FilesAfterPut(fs, hh, d, outcome)]

\* generate_digest_json(its, n, use_cache) as one call, lines 300-361: fs
\* are the cache files before it, resp is what the service answers, out1
\* and out2 are the outcomes of the writes of lines 352 and 313/360
generate_digest_json(fs, its, n, uc, key, resp, out1, out2) ==
    LET hh == _items_hash(its)
        cached == IF GetGuard(uc) THEN _cache_get(fs, hh) ELSE CacheAbsent
        mock == _mock_digest(its, n)
    IN  CASE cached.tag = "hit" -> [raised |-> FALSE, result |-> cached.val, files |-> fs]
          [] cached.tag = "raise" -> [raised |-> TRUE, result |-> NoDigest, files |-> fs]
          [] OTHER ->
               IF NoCredential(key) THEN FinalPut(fs, hh, mock, uc, out2)
               ELSE IF ~ResponseAccepted(resp) THEN FinalPut(fs, hh, mock, uc, out2)
               ELSE IF ~PutGuard(uc)
                    THEN [raised |-> FALSE, result |-> DigestOutput(resp.data), files |-> fs]
               ELSE IF out1 = "ok"
                    THEN [raised |-> FALSE, result |-> DigestOutput(resp.data),
                          files |-> _cache_put(fs, hh, DigestOutput(resp.data))]
               ELSE FinalPut(FilesAfterPut(fs, hh, DigestOutput(resp.data), out1),
                             hh, mock, uc, out2)

\* longest array in a batch file
MaxBatch == 2

\* the records of the batch files: two well-formed ones, one without url,
\* one whose title is a number, and a number in place of a record
RawPool ==
    { JObj([title |-> JStr(<<"a">>), url |-> JStr(<<"c">>)]),
      JObj([title |-> JStr(<<"b">>), url |-> JStr(<<"d">>),
            source |-> JStr(<<"O", "p", "e", "n", "A", "I">>), date |-> [t |-> "null"],
            tags |-> JArr(<< JStr(<<"a">>) >>)]),
      JObj([title |-> JStr(<<"a">>)]),
      JObj([title |-> JNum(7), url |-> JStr(<<"c">>)]),
      JNum(7) }

\* no --input; a path with no file; a text that is not JSON; a JSON object;
\* the arrays over RawPool
BatchFiles ==
    { [kind |-> "none"], [kind |-> "missing"], [kind |-> "text"],
      [kind |-> "json", raw |-> JObj([items |-> JArr(<<>>)])] }
    \cup { [kind |-> "json", raw |-> JArr(a)] : a \in SeqsUpTo(RawPool, MaxBatch) }

\* --top-k: given as 1, or left at its default
TopKs == {1, ScenarioItems}

InitCli ==
    /\ CoreIdle
    /\ rank_in = NoRankIn /\ rank_out = NoRankOut
    /\ mock_in = NoMockIn /\ mock_out = NoMockOut
    /\ answer = NoAnswer
    /\ ScoreIdle
    /\ SeenIdle
    /\ IngIdle
    /\ HeapIdle
    /\ cli_in \in { [file |-> f, top_k |-> k, no_cache |-> nc, api_key |-> key, now |-> t] :
                      f \in BatchFiles, k \in TopKs, nc \in BOOLEAN, key \in BOOLEAN,
                      t \in Clock }
    /\ cli = NoCli

cliOthers == <<ncalls, call, obs, served, storeVars, hashVars, rankVars, mockVars, answer,
               scoreVars, cli_in, seenVars, ingVars, heapVars>>

\* lines 497-547: the items are collected; an empty list ends the run with
\* code 0
CliLoad ==
    /\ cli.pc = "idle"
    /\ LET b == LoadBatch(cli_in.file)
       IN  cli' = [cli EXCEPT
                      !.pc = IF b.status # "loaded" THEN b.status
                             ELSE IF b.items = <<>> THEN "exit0" ELSE "loaded",
                      !.items = b.items]
    /\ UNCHANGED <<files, cliOthers>>

\* lines 550-553: ranked = pre_rank(items, top_k=top_k)
CliPreRank ==
    /\ cli.pc = "loaded"
    /\ cli' = [cli EXCEPT !.pc = "ranked",
                          !.ranked = pre_rank(cli.items, cli_in.top_k, cli_in.now),
                          !.pre_rank_calls = @ + 1]
    /\ UNCHANGED <<files, cliOthers>>

\* lines 556-561: generate_digest_json(ranked, all_count=len(items),
\* use_cache=not no_cache); its exception ends the run
CliGenerate(resp, out1, out2) ==
    /\ cli.pc = "ranked"
    /\ LET g == generate_digest_json(files, cli.ranked, Len(cli.items), ~cli_in.no_cache,
                                     cli_in.api_key, resp, out1, out2)
       IN  /\ files' = g.files
           /\ cli' = [cli EXCEPT !.pc = IF g.raised THEN "error" ELSE "generated",
                                 !.digest = g.result,
                                 !.generate_calls = @ + 1]
    /\ UNCHANGED cliOthers

\* lines 564-571: digest.json is written
CliWrite ==
    /\ cli.pc = "generated"
    /\ cli' = [cli EXCEPT !.pc = "written", !.out_file = cli.digest]
    /\ UNCHANGED <<files, cliOthers>>

NextCli ==
    \/ CliLoad
    \/ CliPreRank
    \/ \E resp \in Responses, out1 \in WriteOutcomes, out2 \in WriteOutcomes :
           CliGenerate(resp, out1, out2)
    \/ CliWrite

SpecCli == InitCli /\ [][NextCli]_vars

(***************************************************************************)
(* dedup.py: the hashes of a url and of a text, and the seen store, a file *)
(* of one JSON line per record.  A url is given as urlparse splits it.     *)
(***************************************************************************)
ParsedUrl(s, n, p, q, f) ==
    [scheme |-> s, netloc |-> n, path |-> p, query |-> q, fragment |-> f]

\* s.endswith(suffix)
EndsWith(s, suffix) ==
    Len(s) >= Len(suffix) /\ SubSeq(s, Len(s) - Len(suffix) + 1, Len(s)) = suffix

\* "&".join(parts)
RECURSIVE JoinAmp(_)
JoinAmp(parts) ==
    IF parts = <<>> THEN <<>>
    ELSE IF Len(parts) = 1 THEN Head(parts)
    ELSE Head(parts) \o <<"&">> \o JoinAmp(Tail(parts))

tracking_params ==
    { <<"u", "t", "m", "_", "s", "o", "u", "r", "c", "e">>, <<"u", "t", "m", "_", "m", "e", "d", "i", "u", "m">>, <<"u", "t", "m", "_", "c", "a", "m", "p", "a", "i", "g", "n">>, <<"u", "t", "m", "_", "t", "e", "r", "m">>, <<"u", "t", "m", "_", "c", "o", "n", "t", "e", "n", "t">>,
      <<"r", "e", "f">>, <<"s", "o", "u", "r", "c", "e">>, <<"f", "b", "c", "l", "i", "d">>, <<"g", "c", "l", "i", "d">> }

\* lines 65-69: the parameters with a "=" whose key is no tracking parameter
KeptParam(param) ==
    /\ Contains(param, <<"=">>)
    /\ LowerText(Split(param, "=")[1]) \notin tracking_params

\* lines 35-76
normalize_url(parsed) ==
    LET scheme == LowerText(parsed.scheme)
        lowered == LowerText(parsed.netloc)
        netloc == IF EndsWith(lowered, <<":", "8", "0">>) /\ scheme = <<"h", "t", "t", "p">>
                  THEN SubSeq(lowered, 1, Len(lowered) - 3)
                  ELSE IF EndsWith(lowered, <<":", "4", "4", "3">>) /\ scheme = <<"h", "t", "t", "p", "s">>
                  THEN SubSeq(lowered, 1, Len(lowered) - 4)
                  ELSE lowered
        path == IF parsed.path # <<"/">> /\ EndsWith(parsed.path, <<"/">>)
                THEN RStrip(parsed.path, {"/"}) ELSE parsed.path
        query == IF parsed.query = <<>> THEN <<>>
                 ELSE JoinAmp(SelectSeq(sorted(Split(parsed.query, "&")), KeptParam))
    IN  scheme \o <<":", "/", "/">> \o netloc \o path
            \o (IF query = <<>> THEN <<>> ELSE <<"?">> \o query)

\* re.sub(r"\s+", " ", text): every run of blanks becomes one blank
RECURSIVE CollapseBlanks(_)
CollapseBlanks(s) ==
    IF s = <<>> THEN <<>>
    ELSE IF Head(s) = " " THEN <<" ">> \o CollapseBlanks(LStrip(s, {" "}))
    ELSE <<Head(s)>> \o CollapseBlanks(Tail(s))

\* lines 89-95
normalize_text(text) == Strip(CollapseBlanks(LowerText(text)), {" "})

\* hashlib.sha256(text).hexdigest(): different texts, different digests
Sha256Hex(text) == <<"sha256">> \o text

compute_url_hash(url) == Sha256Hex(normalize_url(url))
compute_content_hash(text) == Sha256Hex(normalize_text(text))

\* the record the callers make for an article
SeenRecord(url, content, title) ==
    [url |-> url, url_hash |-> compute_url_hash(url),
     content_hash |-> compute_content_hash(content), title |-> title]

\* lines 146-152: json.loads or SeenRecord.model_validate raises on the line
InvalidLine(line) == ~line.complete

\* lines 137-158: the dict of the records of the lines that parse, by
\* url_hash; a later line with the url_hash of an earlier one takes its place
RECURSIVE LoadLines(_, _)
LoadLines(lines, records) ==
    IF lines = <<>> THEN records
    ELSE IF InvalidLine(Head(lines)) THEN LoadLines(Tail(lines), records)
    ELSE LoadLines(Tail(lines),
                   [h \in DOMAIN records \cup {Head(lines).doc.url_hash} |->
                       IF h = Head(lines).doc.url_hash THEN Head(lines).doc ELSE records[h]])

load_seen_records(file) ==
    IF ~file.exists THEN <<>> ELSE LoadLines(file.lines, <<>>)

\* an ingestion that never finds a duplicate
is_duplicate_never(url, content, file) == [dup |-> FALSE, reason |-> None]

\* lines 189-207
is_duplicate(url, content, file) ==
    LET url_hash == compute_url_hash(url)
        records == load_seen_records(file)
    IN  IF url_hash \in DOMAIN records
        THEN [dup |-> TRUE, reason |-> <<"U", "R", "L", " ", "a", "l", "r", "e", "a", "d", "y", " ", "s", "e", "e", "n", ":", " ">> \o records[url_hash].title]
        ELSE IF content # None /\ content # <<>>
                /\ \E h \in DOMAIN records :
                       records[h].content_hash = compute_content_hash(content)
             THEN LET hit == CHOOSE h \in DOMAIN records :
                                 records[h].content_hash = compute_content_hash(content)
                  IN  [dup |-> TRUE, reason |-> <<"C", "o", "n", "t", "e", "n", "t", " ", "m", "a", "t", "c", "h", "e", "s", " ", "e", "x", "i", "s", "t", "i", "n", "g", ":", " ">> \o records[hit].title]
             ELSE [dup |-> FALSE, reason |-> None]

\* record.model_dump_json() + "\n"
SeenLine(record) == [complete |-> TRUE, doc |-> record, newline |-> TRUE]

\* what a write that failed part-way leaves: a piece of text that is no JSON
\* document, with no newline after it
PartialLine == [complete |-> FALSE, doc |-> <<>>, newline |-> FALSE]

\* a line that began with such a piece and was ended by a later write
SpoiltLine == [complete |-> FALSE, doc |-> <<>>, newline |-> TRUE]

\* the text of the file does not end with a newline
Unterminated(file) ==
    file.lines # <<>> /\ ~file.lines[Len(file.lines)].newline

\* lines 219-230: the line is appended to the text of the file; or open()
\* raises OSError and the file is as it was; or the write raises part-way
record_seen(file, record, outcome) ==
    CASE outcome = "fail_open" -> file
      [] outcome = "fail_write" ->
           IF Unterminated(file) THEN file
           ELSE [exists |-> TRUE, lines |-> Append(file.lines, PartialLine)]
      [] OTHER ->
           IF Unterminated(file)
           THEN [exists |-> TRUE,
                 lines |-> [file.lines EXCEPT ![Len(file.lines)] = SpoiltLine]]
           ELSE [exists |-> TRUE, lines |-> Append(file.lines, SeenLine(record))]

\* most lines of seen.jsonl
MaxSeen == 2

\* two spellings of one address, the same address with a query, another one
UrlPool ==
    { ParsedUrl(<<"h", "t", "t", "p", "s">>, <<"E", "x", "a", "m", "p", "l", "e", ".", "c", "o", "m">>, <<"/", "a", "/">>, <<>>, <<>>),
      ParsedUrl(<<"h", "t", "t", "p", "s">>, <<"e", "x", "a", "m", "p", "l", "e", ".", "c", "o", "m", ":", "4", "4", "3">>, <<"/", "a">>, <<"u", "t", "m", "_", "s", "o", "u", "r", "c", "e", "=", "x">>, <<"t", "o", "p">>),
      ParsedUrl(<<"h", "t", "t", "p", "s">>, <<"e", "x", "a", "m", "p", "l", "e", ".", "c", "o", "m">>, <<"/", "a">>, <<"b", "=", "1", "&", "a", "=", "2">>, <<>>),
      ParsedUrl(<<"h", "t", "t", "p">>, <<"o", "t", "h", "e", "r", ".", "o", "r", "g">>, <<"/", "b">>, <<>>, <<>>) }

\* two spellings of one text, and another text
ContentPool == { <<"A", " ", " ", "b">>, <<"a", " ", "b">>, <<"c">> }

SeenRecords == { SeenRecord(u, c, Take(c, 1)) : u \in UrlPool, c \in ContentPool }

InitSeen ==
    /\ CoreIdle
    /\ rank_in = NoRankIn /\ rank_out = NoRankOut
    /\ mock_in = NoMockIn /\ mock_out = NoMockOut
    /\ answer = NoAnswer
    /\ ScoreIdle
    /\ CliIdle
    /\ SeenIdle
    /\ IngIdle
    /\ HeapIdle

seenOthers == <<progVars, storeVars, hashVars, rankVars, mockVars, answer, scoreVars, cliVars,
                ingVars, heapVars>>

\* record_seen(record, seen_file)
RecordSeen(record, outcome) ==
    /\ Len(seen_file.lines) < MaxSeen
    /\ seen_file' = record_seen(seen_file, record, outcome)
    /\ seen_q' = NoSeenQuery
    /\ UNCHANGED seenOthers

\* is_duplicate(url, content, seen_file)
IsDuplicate(url, content) ==
    /\ seen_q' = [done |-> TRUE, url |-> url, content |-> content,
                  dup |-> is_duplicate(url, content, seen_file).dup,
                  reason |-> is_duplicate(url, content, seen_file).reason]
    /\ UNCHANGED <<seen_file, seenOthers>>

NextSeen ==
    \/ \E record \in SeenRecords, outcome \in {"ok", "fail_open"} : RecordSeen(record, outcome)
    \/ \E url \in UrlPool, content \in ContentPool \cup {None} : IsDuplicate(url, content)

SpecSeen == InitSeen /\ [][NextSeen]_vars

(***************************************************************************)
(* Ingestion: the ingest command and _ingest_single, one run after the     *)
(* other.  A page is fetched and its text extracted, the seen store is     *)
(* asked, the article is written to the library and its record appended.   *)
(***************************************************************************)
\* most ingestions
MaxIngests == 2

IngestCommands == {"ingest", "single"}

\* two spellings of one address and one other, two texts
IngestUrls ==
    { u \in UrlPool : u.query = <<>> \/ u.fragment # <<>> }
IngestTexts == { c \in ContentPool : Len(c) <= 3 }

ingOthers == <<progVars, storeVars, hashVars, rankVars, mockVars, answer, scoreVars, cliVars,
               heapVars>>

\* lines 72-96 and 252-286: fetch_url and extract_content give the text, or
\* raise; _ingest_single gives up on a text of few words; the seen store is
\* asked; a duplicate ends the run unless --force is given; --dry-run ends it
IngestStart(command, url, text, fetched, few, force, dry_run) ==
    /\ ing.pc = "idle"
    /\ ing.count < MaxIngests
    /\ command = "single" => (~force /\ ~dry_run)
    /\ LET dup == is_duplicate(url, text, seen_file).dup
           pc == IF ~fetched THEN "failed"
                 ELSE IF command = "single" /\ few THEN "failed"
                 ELSE IF dup /\ ~force THEN "skipped"
                 ELSE IF dry_run THEN "dry_run"
                 ELSE "write"
       IN  ing' = [pc |-> pc, command |-> command, url |-> url, text |-> text,
                   few_words |-> few, force |-> force, dry_run |-> dry_run,
                   seen0 |-> seen_file, library0 |-> library,
                   count |-> ing.count + 1, forced |-> ing.forced \/ force]
    /\ UNCHANGED <<library, seen_file, seen_q, ingOthers>>

\* lines 113-135 and 288-305: the summary is made and write_article writes
\* meta.json, content.txt and summary.md; an exception of either ends the run
IngestWrite(outcome) ==
    /\ ing.pc = "write"
    /\ library' =
           CASE outcome = "ok" ->
                    library \cup {[url_hash |-> compute_url_hash(ing.url),
                                   content_hash |-> compute_content_hash(ing.text),
                                   complete |-> TRUE]}
             [] outcome = "fail_write" ->
                    library \cup {[url_hash |-> compute_url_hash(ing.url),
                                   content_hash |-> compute_content_hash(ing.text),
                                   complete |-> FALSE]}
             [] OTHER -> library
    /\ ing' = [ing EXCEPT !.pc = IF outcome = "ok" THEN "record" ELSE "failed"]
    /\ UNCHANGED <<seen_file, seen_q, ingOthers>>

\* lines 137-147 and 307-317: record_seen(create_seen_record(...))
IngestRecord(outcome) ==
    /\ ing.pc = "record"
    /\ seen_file' = record_seen(seen_file,
                                SeenRecord(ing.url, ing.text, Take(ing.text, 1)), outcome)
    /\ ing' = [ing EXCEPT !.pc = IF outcome = "ok" THEN "success" ELSE "failed"]
    /\ UNCHANGED <<library, seen_q, ingOthers>>

\* the run is over
IngestEnd ==
    /\ ing.pc \in {"failed", "skipped", "dry_run", "success"}
    /\ ing' = [NoIngest EXCEPT !.count = ing.count, !.forced = ing.forced]
    /\ UNCHANGED <<library, seen_file, seen_q, ingOthers>>

NextIngest ==
    \/ \E command \in IngestCommands, url \in IngestUrls, text \in IngestTexts,
          fetched \in BOOLEAN, few \in BOOLEAN, force \in BOOLEAN, dry_run \in BOOLEAN :
           IngestStart(command, url, text, fetched, few, force, dry_run)
    \/ \E outcome \in WriteOutcomes : IngestWrite(outcome)
    \/ \E outcome \in WriteOutcomes : IngestRecord(outcome)
    \/ IngestEnd

SpecIngest == InitSeen /\ [][NextIngest]_vars

(***************************************************************************)
(* The objects pre_rank and generate_digest_json work on.  The heap is a   *)
(* sequence of objects and a reference is an index into it: the list of    *)
(* the caller is at 1, its items follow, and what the two functions make   *)
(* is appended.                                                            *)
(***************************************************************************)
HeapList(refs) == [kind |-> "list", v |-> refs]
HeapItem(item) == [kind |-> "item", v |-> item]
HeapDict(d) == [kind |-> "dict", v |-> d]

\* the heap of a caller that holds the list items
CallerHeap(items) ==
    <<HeapList([i \in 1..Len(items) |-> i + 1])>> \o [i \in 1..Len(items) |-> HeapItem(items[i])]

\* the items a list object refers to
ItemsAt(h, ref) == [i \in 1..Len(h[ref].v) |-> h[h[ref].v[i]].v]

\* digest.py lines 107-119: `scored` is a new list of (score, idx, item),
\* sorted in place; `top` is a new list of the items of its first top_k
HeapPreRank(h, ref, top_k, now) ==
    LET ordered == SortScored(Scored(ItemsAt(h, ref), now))
        scored == [i \in 1..Len(ordered) |->
                      [score |-> ordered[i].score, idx |-> ordered[i].idx,
                       item |-> h[ref].v[ordered[i].idx + 1]]]
        cut == SliceTo(scored, top_k)
    IN  h \o <<HeapList(scored), HeapList([i \in 1..Len(cut) |-> cut[i].item])>>

\* line 321: the most characters of a content in the request
ContentCap == 3000

\* the character that marks a cut content
Ellipsis == <<"u2026">>

\* a dump that hands out the fields of the item itself
DumpInPlace(h, ref) == ref

\* line 319: it.model_dump(exclude_none=True) makes a new dict
ModelDump(h, ref) == Len(h) + 1

\* lines 319-323 for one item: the dict d, its content cut to ContentCap
\* characters, appended to items_payload
PayloadOfItem(h, ref) ==
    LET d == ModelDump(h, ref)
        h1 == IF d > Len(h) THEN Append(h, HeapDict(h[ref].v)) ELSE h
        content == h1[d].v.content
    IN  [heap |-> IF content # None /\ Len(content) > ContentCap
                  THEN [h1 EXCEPT ![d].v.content = Take(content, ContentCap) \o Ellipsis]
                  ELSE h1,
         d |-> d]

\* lines 317-323: the loop over the items
RECURSIVE BuildPayload(_, _, _)
BuildPayload(h, refs, payload) ==
    IF refs = <<>> THEN [heap |-> h, payload |-> payload]
    ELSE LET one == PayloadOfItem(h, Head(refs))
         IN  BuildPayload(one.heap, Tail(refs), Append(payload, one.d))

\* lines 304-314: whether the call gets as far as the request
ReachesRequest(fs, its, uc, key) ==
    /\ ~NoCredential(key)
    /\ (GetGuard(uc) => _cache_get(fs, _items_hash(its)).tag = "absent")

\* longest list of the caller
MaxHeapItems == 2

\* an item with next to nothing, one with a date and a short text, one whose
\* content is longer than the request takes
HeapPool ==
    { DigestItemInput(<<"a">>, <<"c">>, None, None, None, None, <<>>),
      DigestItemInput(<<"c">>, <<"d">>, None, <<"2", "0", "2", "6", "-", "0", "9", "-", "0", "1">>,
                      None, Chars(101), <<>>),
      DigestItemInput(<<"b">>, <<"c">>, None, None, None, Chars(ContentCap + 2), <<"a">>) }

InitHeap ==
    /\ CoreIdle
    /\ rank_in = NoRankIn /\ rank_out = NoRankOut
    /\ mock_in = NoMockIn /\ mock_out = NoMockOut
    /\ answer = NoAnswer
    /\ ScoreIdle
    /\ CliIdle
    /\ SeenIdle
    /\ IngIdle
    /\ \E its \in SeqsUpTo(HeapPool, MaxHeapItems), k \in TopKs, t \in Clock,
          uc \in BOOLEAN, key \in BOOLEAN :
           /\ heap = CallerHeap(its)
           /\ fr = [NoFrame EXCEPT !.pc = "start", !.items = 1, !.top_k = k, !.now = t,
                                   !.use_cache = uc, !.api_key = key,
                                   !.heap0 = CallerHeap(its)]

heapOthers == <<ncalls, call, obs, served, storeVars, hashVars, rankVars, mockVars, answer,
                scoreVars, cliVars, seenVars, ingVars>>

\* ranked = pre_rank(items, top_k)
HeapRank ==
    /\ fr.pc = "start"
    /\ heap' = HeapPreRank(heap, fr.items, fr.top_k, fr.now)
    /\ fr' = [fr EXCEPT !.pc = "ranked", !.top = Len(heap'), !.heap1 = heap']
    /\ UNCHANGED <<files, heapOthers>>

\* generate_digest_json(ranked, all_count=len(items), use_cache)
HeapGenerate(resp, out1, out2) ==
    /\ fr.pc = "ranked"
    /\ LET its == ItemsAt(heap, fr.top)
           g == generate_digest_json(files, its, Len(heap[fr.items].v), fr.use_cache,
                                     fr.api_key, resp, out1, out2)
           built == BuildPayload(heap, heap[fr.top].v, <<>>)
       IN  /\ files' = g.files
           /\ IF ReachesRequest(files, its, fr.use_cache, fr.api_key)
              THEN /\ heap' = built.heap
                   /\ fr' = [fr EXCEPT !.pc = "generated", !.payload = built.payload]
              ELSE /\ heap' = heap
                   /\ fr' = [fr EXCEPT !.pc = "generated"]
    /\ UNCHANGED heapOthers

NextHeap ==
    \/ HeapRank
    \/ \E resp \in Responses, out1 \in WriteOutcomes, out2 \in WriteOutcomes :
           HeapGenerate(resp, out1, out2)

SpecHeap == InitHeap /\ [][NextHeap]_vars

(***************************************************************************)
(* The claims.                                                             *)
(***************************************************************************)
Active(p) == call[p].pc # "idle"
Done(p) == call[p].pc = "done"
Raised(p) == call[p].pc = "raised"
PastCacheCheck(p) == call[p].pc \notin {"idle", "cache_check"}

\* the mock digest of the arguments of the current call of p
FallbackOf(p) == _mock_digest(call[p].items, call[p].all_count)

\* whether the cache held a readable entry under h when the call of p began
HadEntry(p) ==
    /\ call[p].h \in DOMAIN obs[p].files0
    /\ ~Unreadable(obs[p].files0[call[p].h])

\* whether the cache held an unreadable file under h when the call of p began
HadBadEntry(p) ==
    /\ call[p].h \in DOMAIN obs[p].files0
    /\ Unreadable(obs[p].files0[call[p].h])

\* C1: whenever the external call of a generate_digest_json call failed (it
\* raised, the response was no JSON, or the response failed validation), the
\* call raises nothing to its caller, and what it returns is the mock digest
\* of its items and count.
C1_ServiceFailureGivesFallback ==
    \A p \in Procs :
        obs[p].llm_failed =>
            /\ ~Raised(p)
            /\ Done(p) => call[p].result = FallbackOf(p)

\* C2: a call with use_cache that finds a readable entry under the
\* fingerprint of its items is over right after the cache check: it returns
\* that entry, has not called the service, has built no mock digest and has
\* not written the cache; the fingerprint is the same for any order of the
\* items.
C2_CacheHitReturnsAtOnce ==
    \A p \in Procs :
        (call[p].use_cache /\ PastCacheCheck(p) /\ HadEntry(p)) =>
            /\ Done(p)
            /\ call[p].path = "hit"
            /\ call[p].result = DigestOutput(obs[p].files0[call[p].h].doc)
            /\ obs[p].llm_calls = 0
            /\ obs[p].mocks = 0
            /\ obs[p].puts = 0
            /\ files = obs[p].files0

\* a hit on an entry that a call with the two items in the other order wrote:
\* the cached mock digest lists the second item of this call first
C2_Witness ==
    \E p \in Procs :
        /\ Done(p) /\ call[p].path = "hit"
        /\ Len(call[p].items) = 2
        /\ call[p].items[1] # call[p].items[2]
        /\ Len(call[p].result.top_stories) = 2
        /\ call[p].result.top_stories[1].title = call[p].items[2].title
        /\ call[p].result.top_stories[2].title = call[p].items[1].title

\* C3: a call that finds an unreadable file under its fingerprint goes on as
\* on a miss: it does not raise at the cache check, and when it returns the
\* file holds the digest it returns.
C3_BadEntryIsAMiss ==
    \A p \in Procs :
        (call[p].use_cache /\ PastCacheCheck(p) /\ HadBadEntry(p)) =>
            /\ ~obs[p].bad_entry
            /\ Done(p) => _cache_get(files, call[p].h)
                              = [tag |-> "hit", val |-> call[p].result]

C5_MissWritesResult ==
    \A p \in Procs :
        (Done(p) /\ call[p].use_cache /\ call[p].path # "hit") =>
            _cache_get(files, call[p].h) = [tag |-> "hit", val |-> call[p].result]

\* a mock digest of the failure path has been written and returned
C5_Witness ==
    \E p \in Procs :
        /\ Done(p) /\ call[p].use_cache /\ call[p].path = "fallback"
        /\ obs[p].llm_failed
        /\ call[p].items # <<>>

\* C6: a call without use_cache makes no _cache_get and no _cache_put, and
\* the cache directory stays as it was when the call began.
C6_NoCacheNoStoreAccess ==
    \A p \in Procs :
        (Active(p) /\ ~call[p].use_cache) =>
            /\ obs[p].gets = 0
            /\ obs[p].puts = 0
            /\ files = obs[p].files0

\* a call without use_cache returned a generated digest although the cache
\* holds a file under its fingerprint
C6_Witness ==
    \E p \in Procs :
        /\ Done(p) /\ ~call[p].use_cache /\ call[p].path = "llm"
        /\ call[p].h \in DOMAIN files

\* C7: a call invokes the service at most once, and once an invocation has
\* failed the call is never again at the point where it invokes the service.
C7_AtMostOneInvocation ==
    \A p \in Procs :
        /\ obs[p].llm_calls <= 1
        /\ obs[p].llm_failed => (obs[p].llm_calls = 1 /\ call[p].pc # "key_check")

\* a call has returned after its one invocation failed
C7_Witness ==
    \E p \in Procs : Done(p) /\ obs[p].llm_failed /\ obs[p].llm_calls = 1

\* C8: a call with use_cache returns the digest that the first returning
\* call with use_cache and the same fingerprint returned.
C8_SameFingerprintSameDigest ==
    \A p \in Procs :
        (Done(p) /\ call[p].use_cache /\ call[p].h \in DOMAIN served) =>
            call[p].result = served[call[p].h]

\* a later call with a credential returns the mock digest an earlier call
\* returned for other arguments with the same fingerprint
C8_Witness ==
    \E p \in Procs :
        /\ Done(p) /\ call[p].use_cache /\ call[p].api_key
        /\ call[p].h \in DOMAIN served
        /\ call[p].result = served[call[p].h]
        /\ call[p].result # FallbackOf(p)
        /\ call[p].result # DigestOutput(LlmData("Models", 3, 5))

\* no two items of the list have the same "title|url" label
NoDuplicateKeys(its) ==
    \A i, j \in 1..Len(its) : ItemKey(its[i]) = ItemKey(its[j]) => i = j

\* C9: an item list without duplicate title|url labels and any rearrangement
\* of it get the same fingerprint.
C9_FingerprintOrderIndependent ==
    (fp_out.done /\ NoDuplicateKeys(fp_in.items)) =>
        fp_out.of_shuffled = fp_out.of_items

\* three items with distinct labels, fingerprinted in two different orders
C9_Witness ==
    /\ fp_out.done
    /\ NoDuplicateKeys(fp_in.items)
    /\ Len(fp_in.items) = 3
    /\ fp_in.shuffled # fp_in.items
    /\ fp_out.of_shuffled = fp_out.of_items

\* C10: a direct _cache_get(f) finds nothing when no _cache_put(f, ...) was
\* ever made, and returns d when the latest _cache_put under f was a
\* completed _cache_put(f, d).
C10_StoreIsKeyedMap ==
    got.valid =>
        IF got.fp \notin DOMAIN last_put
        THEN got.res = CacheAbsent
        ELSE last_put[got.fp].ok =>
                 got.res = [tag |-> "hit", val |-> last_put[got.fp].digest]

\* a get returned the digest of a put that replaced another digest
C10_Witness ==
    /\ got.valid
    /\ got.fp \in DOMAIN last_put
    /\ last_put[got.fp].ok
    /\ last_put[got.fp].overwrote
    /\ got.res = [tag |-> "hit", val |-> last_put[got.fp].digest]

(***************************************************************************)
(* pre_rank (SpecRank).                                                    *)
(***************************************************************************)
\* out[i] = its[f[i]] for a one-to-one f: every element of out is taken
\* from a position of its of its own
TakenFrom(out, its, f) ==
    /\ \A i \in 1..Len(out) : out[i] = its[f[i]]
    /\ \A i, j \in 1..Len(out) : i # j => f[i] # f[j]

Min(a, b) == IF a < b THEN a ELSE b

\* C11: for every item list and every top_k >= 0, pre_rank returns at most
\* min(top_k, len(items)) items, each taken from a position of the input of
\* its own (none invented, none repeated), and top_k = 0 gives the empty
\* list.
C11_TopKBoundsTheSelection ==
    (rank_out.done /\ rank_in.top_k >= 0) =>
        /\ Len(rank_out.top) <= Min(rank_in.top_k, Len(rank_in.items))
        /\ \E f \in [1..Len(rank_out.top) -> 1..Len(rank_in.items)] :
               TakenFrom(rank_out.top, rank_in.items, f)
        /\ (rank_in.top_k = 0 => rank_out.top = <<>>)

\* pre_rank was handed more items than top_k, one of them twice, and cut
C11_Witness ==
    /\ rank_out.done
    /\ rank_in.top_k > 0
    /\ rank_in.top_k < Len(rank_in.items)
    /\ \E i, j \in 1..Len(rank_in.items) : i # j /\ rank_in.items[i] = rank_in.items[j]
    /\ Len(rank_out.top) = rank_in.top_k

\* the composite score of the formula 0.4 * sw + 0.3 * fresh + 0.3 * length,
\* in tenths
FormulaScore(item, now) ==
    4 * _source_weight(item) + 3 * _freshness_score(item, now)
    + 3 * _content_length_score(item)

\* position a of its comes before position b in the order (composite score
\* descending, input index ascending)
RanksBefore(its, now, a, b) ==
    \/ FormulaScore(its[a], now) > FormulaScore(its[b], now)
    \/ FormulaScore(its[a], now) = FormulaScore(its[b], now) /\ a < b

\* C12: the output of pre_rank is the first top_k elements of the input
\* ordered by (composite score descending, input index ascending): scores
\* do not increase along the output, items of equal score keep their input
\* order, and no dropped item has a higher score than a returned one.
C12_RankedByScoreThenIndex ==
    (rank_out.done /\ rank_in.top_k >= 0) =>
        /\ Len(rank_out.top) = Min(rank_in.top_k, Len(rank_in.items))
        /\ \E f \in [1..Len(rank_out.top) -> 1..Len(rank_in.items)] :
               /\ TakenFrom(rank_out.top, rank_in.items, f)
               /\ \A i, j \in 1..Len(rank_out.top) :
                      i < j => RanksBefore(rank_in.items, rank_in.now, f[i], f[j])
               /\ \A d \in 1..Len(rank_in.items) :
                      (\A i \in 1..Len(rank_out.top) : f[i] # d) =>
                          \A i \in 1..Len(rank_out.top) :
                              RanksBefore(rank_in.items, rank_in.now, f[i], d)

(***************************************************************************)
(* The digests generate_digest_json returns (SpecService).                 *)
(***************************************************************************)
\* the digest the call of run p has returned
Returned(p) == call[p].result

\* the service answered the call of run p with a JSON object
AnsweredJson(p) ==
    /\ Done(p)
    /\ answer.call_no = ncalls
    /\ answer.resp.kind = "json"

StoryIds(d) == {d.top_stories[i].id : i \in 1..Len(d.top_stories)}

\* C13: every digest generate_digest_json returns, generated, fallback or
\* cached, has stats.items_kept = len(top_stories); a generated response
\* that does not is replaced by the fallback.
C13_ItemsKeptIsStoryCount ==
    \A p \in Procs :
        Done(p) => Returned(p).stats.items_kept = Len(Returned(p).top_stories)

\* the ten section labels of the prompt (digest.py line 191)
SectionLabels ==
    {"Models", "Agents", "Multimodal", "Systems", "Safety", "Evaluation",
     "Product", "OpenSource", "Policy", "Other"}

\* C14: every TopStory of every digest generate_digest_json returns has a
\* section among the ten labels; a generated digest with another label is
\* replaced by the fallback.
C14_SectionInClosedSet ==
    \A p \in Procs :
        Done(p) =>
            \A i \in 1..Len(Returned(p).top_stories) :
                Returned(p).top_stories[i].section \in SectionLabels

\* the story has 3 to 5 bullets and three scores in 1..5
BulletsAndScoresInRange(st) ==
    /\ Len(st.bullets) >= 3
    /\ Len(st.bullets) <= 5
    /\ \A k \in {"importance", "credibility", "freshness"} :
           st.scores[k] \in Int /\ st.scores[k] >= 1 /\ st.scores[k] <= 5

\* C15: every TopStory of every digest generate_digest_json returns has 3
\* to 5 bullets and three integer scores in [1, 5]; a generated response
\* with a story outside either range is not returned, the fallback is.
C15_BulletsAndScoresInRange ==
    \A p \in Procs :
        /\ Done(p) =>
               \A i \in 1..Len(Returned(p).top_stories) :
                   BulletsAndScoresInRange(Returned(p).top_stories[i])
        /\ (/\ AnsweredJson(p)
            /\ \E i \in 1..Len(answer.resp.data.top_stories) :
                   ~BulletsAndScoresInRange(answer.resp.data.top_stories[i]))
           => Returned(p) = FallbackOf(p)

\* the service answered a story with two bullets and the call returned the
\* fallback digest of its item
C15_Witness ==
    \E p \in Procs :
        /\ AnsweredJson(p)
        /\ \E i \in 1..Len(answer.resp.data.top_stories) :
               Len(answer.resp.data.top_stories[i].bullets) = 2
        /\ call[p].items # <<>>
        /\ Returned(p) = FallbackOf(p)

\* C16: in every digest generate_digest_json returns, every ref_id of a
\* Section item and every ref_id of tag_index is the id of a top story.
C16_RefIdsPointAtStories ==
    \A p \in Procs :
        Done(p) =>
            /\ \A i \in 1..Len(Returned(p).sections) :
                   \A j \in 1..Len(Returned(p).sections[i].items) :
                       Returned(p).sections[i].items[j].ref_id \in StoryIds(Returned(p))
            /\ \A t \in DOMAIN Returned(p).tag_index :
                   \A j \in 1..Len(Returned(p).tag_index[t]) :
                       Returned(p).tag_index[t][j] \in StoryIds(Returned(p))

(***************************************************************************)
(* The fallback digest (SpecMock).                                         *)
(***************************************************************************)
\* C17: the ids of the top stories of a digest are all different, also in
\* the fallback digest of two items whose titles have the same slug.
C17_StoryIdsUnique ==
    mock_out.done =>
        \A i, j \in 1..Len(mock_out.digest.top_stories) :
            i # j => mock_out.digest.top_stories[i].id # mock_out.digest.top_stories[j].id

\* C18: for every item list, the empty one included, and every count the
\* fallback digest has items_kept = len(top_stories) = top_stories_count,
\* duplicates_count = 0 and items_in = the count it was given.
C18_FallbackStats ==
    mock_out.done =>
        /\ mock_out.digest.stats.items_kept = Len(mock_out.digest.top_stories)
        /\ mock_out.digest.stats.top_stories_count = Len(mock_out.digest.top_stories)
        /\ mock_out.digest.stats.duplicates_count = 0
        /\ mock_out.digest.stats.items_in = mock_in.all_count

\* a fallback digest of more items than it keeps, for a count that is
\* neither the length of the list nor the number of stories
C18_Witness ==
    /\ mock_out.done
    /\ Len(mock_in.items) > Len(mock_out.digest.top_stories)
    /\ mock_in.all_count > Len(mock_in.items)
    /\ mock_out.digest.stats.items_in = mock_in.all_count

\* C19: the fallback digest has exactly min(12, len(items)) top stories, the
\* i-th made from the i-th item (same title, same url), each in section
\* "Other"; so 50 candidates ranked down to 30 give items_in = 50 and
\* top_stories_count <= 12.
C19_FallbackKeepsFirstTwelve ==
    mock_out.done =>
        /\ Len(mock_out.digest.top_stories) = Min(12, Len(mock_in.items))
        /\ \A i \in 1..Len(mock_out.digest.top_stories) :
               /\ mock_out.digest.top_stories[i].title = mock_in.items[i].title
               /\ mock_out.digest.top_stories[i].url = mock_in.items[i].url
               /\ mock_out.digest.top_stories[i].section = "Other"
        /\ (Len(mock_in.items) = 30 /\ mock_in.all_count = 50) =>
               /\ mock_out.digest.stats.items_in = 50
               /\ mock_out.digest.stats.top_stories_count <= 12

\* the fallback digest of 30 ranked items out of 50 candidates
C19_Witness ==
    /\ mock_out.done
    /\ Len(mock_in.items) = 30
    /\ mock_in.all_count = 50
    /\ mock_out.digest.stats.top_stories_count = 12

\* C20: every top story of a fallback digest has exactly 3 bullets, the
\* scores (3, 3, 3) and a non-empty id, also when the title of its item has
\* an empty slug (the id is then the positional "item-<i>").
C20_FallbackStoryShape ==
    mock_out.done =>
        \A i \in 1..Len(mock_out.digest.top_stories) :
            /\ Len(mock_out.digest.top_stories[i].bullets) = 3
            /\ mock_out.digest.top_stories[i].scores =
                   [importance |-> 3, credibility |-> 3, freshness |-> 3]
            /\ mock_out.digest.top_stories[i].id # <<>>

\* a fallback digest with a story of an item whose title has an empty slug,
\* at a position of two digits
C20_Witness ==
    /\ mock_out.done
    /\ \E i \in 1..Len(mock_out.digest.top_stories) :
           /\ i > 10
           /\ _slugify(mock_in.items[i].title) = <<>>
           /\ mock_out.digest.top_stories[i].id = <<"i", "t", "e", "m", "-", "1", "0">>

(***************************************************************************)
(* The scores of one item (SpecScore).                                     *)
(***************************************************************************)
\* the weights of the keys of the table found in the lower-cased source
\* label or url of the item
MatchingWeights(item) ==
    { _SOURCE_WEIGHTS[k][2] : k \in
        { j \in 1..Len(_SOURCE_WEIGHTS) :
            \/ Contains(LowerText(item.source), _SOURCE_WEIGHTS[j][1])
            \/ Contains(LowerText(item.url), _SOURCE_WEIGHTS[j][1]) } }

\* the bucket of a text length
VolumeOf(n) ==
    IF n > 5000 THEN 5 ELSE IF n > 2000 THEN 4 ELSE IF n > 500 THEN 3
    ELSE IF n > 100 THEN 2 ELSE 1

TextLength(item) ==
    IF item.content # None THEN Len(item.content) ELSE Len(item.snippet)

\* C21: the composite score is 0.4 * source_weight + 0.3 * freshness +
\* 0.3 * content_volume (the double of that sum: the tenths are exact, the
\* double is at most one unit in the last place off), with source_weight the
\* weight of a key found case-insensitively in the source label or the url,
\* 2 when there is none, and content_volume the bucket of the length of
\* content, else snippet; source OpenAI, today's date and 6000 characters
\* score exactly 5.0, no known source, no date and a 50-character snippet
\* score exactly 1.7.
C21_CompositeScoreFormula ==
    score_out.done =>
        /\ score_out.score.tenths =
               4 * score_out.source_weight + 3 * score_out.freshness
               + 3 * score_out.content_length
        /\ score_out.score.ulps \in {0 - 1, 0, 1}
        /\ IF MatchingWeights(score_in.item) = {}
           THEN score_out.source_weight = 2
           ELSE score_out.source_weight \in MatchingWeights(score_in.item)
        /\ score_out.content_length = VolumeOf(TextLength(score_in.item))
        /\ (/\ score_in.item.source = <<"O", "p", "e", "n", "A", "I">>
            /\ score_in.item.url = <<"c">>
            /\ score_in.item.date = <<"2", "0", "2", "6", "-", "1", "1", "-", "0", "3">>
            /\ Len(score_in.item.content) = 6000)
           => score_out.score = [tenths |-> 50, ulps |-> 0]
        /\ (/\ MatchingWeights(score_in.item) = {}
            /\ score_in.item.date = None
            /\ score_in.item.content = None
            /\ Len(score_in.item.snippet) = 50)
           => score_out.score = [tenths |-> 17, ulps |-> 0]

\* the item of source OpenAI with today's date and 6000 characters of
\* content has been scored 5.0
C21_Witness ==
    /\ score_out.done
    /\ score_in.item.source = <<"O", "p", "e", "n", "A", "I">>
    /\ score_in.item.date = <<"2", "0", "2", "6", "-", "1", "1", "-", "0", "3">>
    /\ Len(score_in.item.content) = 6000
    /\ score_out.score = [tenths |-> 50, ulps |-> 0]

\* the bucket of a number of days
FreshnessOf(days) ==
    IF days <= 1 THEN 5 ELSE IF days <= 3 THEN 4 ELSE IF days <= 7 THEN 3
    ELSE IF days <= 30 THEN 2 ELSE 1

\* the clock reading with the time of day cut off
Midnight(now) == [day |-> now.day, sec |-> 0]

\* C26: the freshness sub-score is 2.0 when the date is absent or cannot be
\* parsed, and otherwise the bucket (<= 1 -> 5.0, <= 3 -> 4.0, <= 7 -> 3.0,
\* <= 30 -> 2.0, else 1.0) of the whole days between the current UTC date,
\* time of day cut off, and the parsed date; it does not depend on the
\* current time of day.
C26_FreshnessByWholeDays ==
    score_out.done =>
        score_out.freshness =
            IF score_in.item.date = None \/ ~ParseDate(score_in.item.date).ok
            THEN 2
            ELSE FreshnessOf(DaysOld(Midnight(score_in.now),
                                     ParseDate(score_in.item.date)))

(***************************************************************************)
(* The fingerprint of lists with the same set of labels (SpecHashSets).    *)
(***************************************************************************)
\* C24: the fingerprint depends only on which title|url labels occur: two
\* lists with the same set of labels, in whatever order and however many
\* times each label occurs, get the same fingerprint.
C24_FingerprintOfLabelSet ==
    (fp_out.done /\ LabelSet(fp_in.items) = LabelSet(fp_in.shuffled)) =>
        fp_out.of_items = fp_out.of_shuffled

(***************************************************************************)
(* Cache writes and cache hits of generate_digest_json (Spec).             *)
(***************************************************************************)
\* the call of run p is over, by a return or by an exception
Over(p) == call[p].pc \in {"done", "raised"}

\* the service was invoked in the call of run p and its answer validated
Generated(p) == obs[p].llm_calls = 1 /\ ~obs[p].llm_failed

\* C28: when the external call succeeds and its response validates, the
\* call returns that generated digest also if writing it to the cache
\* fails: the failed write neither puts the fallback in its place nor
\* raises.
C28_FailedWriteKeepsGenerated ==
    \A p \in Procs :
        (Over(p) /\ Generated(p)) => (Done(p) /\ call[p].path = "llm")

Quiet == \A p \in Procs : call[p].pc \in {"idle", "done", "raised"}

\* C25: when two invocations of generate_digest_json over the same items
\* interleave their cache reads, generations and cache writes, no
\* invocation fails, every one returns a schema-valid digest, and once they
\* are through the cache entry is the complete digest of the last writer.
C25_InterleavingsNeverFail ==
    /\ \A p \in Procs : ~Raised(p)
    /\ \A p \in Procs : Done(p) => ValidDigestOutput(Returned(p))
    /\ Quiet =>
           \A hh \in DOMAIN files :
               hh \in DOMAIN last_put /\ files[hh] = model_dump_json(last_put[hh])

(***************************************************************************)
(* The digest-json command (SpecCli).                                      *)
(***************************************************************************)
\* the batch file is not a JSON array, or one of its records is malformed
InvalidInput(file) ==
    \/ file.kind = "text"
    \/ file.kind = "json" /\ file.raw.t # "arr"
    \/ /\ file.kind = "json"
       /\ file.raw.t = "arr"
       /\ \E i \in DOMAIN file.raw.v : ~model_validate(file.raw.v[i]).ok

\* C22: when the batch file is not a JSON array or holds a malformed item
\* record, the digest-json run stops before the pipeline: neither pre_rank
\* nor generate_digest_json is called, and neither digest.json nor a cache
\* entry is written.
C22_InvalidInputStopsRun ==
    InvalidInput(cli_in.file) =>
        /\ cli.pc \in {"idle", "exit1", "error"}
        /\ cli.pre_rank_calls = 0
        /\ cli.generate_calls = 0
        /\ cli.out_file = NoDigest
        /\ files = <<>>

\* a batch whose second record is malformed has been rejected
C22_Witness ==
    /\ cli_in.file.kind = "json"
    /\ cli_in.file.raw.t = "arr"
    /\ Len(cli_in.file.raw.v) = 2
    /\ model_validate(cli_in.file.raw.v[1]).ok
    /\ ~model_validate(cli_in.file.raw.v[2]).ok
    /\ cli.pc = "error"

(***************************************************************************)
(* The seen store (SpecSeen).                                              *)
(***************************************************************************)
\* the records record_seen appended to seen.jsonl, oldest first
Recorded == [i \in DOMAIN seen_file.lines |-> seen_file.lines[i].doc]

\* C23: after any sequence of record_seen calls, is_duplicate(url, content)
\* answers True exactly when some recorded record has the url_hash of the
\* normalized url, or content is given and some recorded record has its
\* content_hash; on a missing or empty seen file it answers (False, None).
C23_DuplicateIffRecorded ==
    seen_q.done =>
        /\ seen_q.dup <=>
               \/ \E i \in DOMAIN Recorded :
                      Recorded[i].url_hash = compute_url_hash(seen_q.url)
               \/ /\ seen_q.content # None
                  /\ \E i \in DOMAIN Recorded :
                         Recorded[i].content_hash = compute_content_hash(seen_q.content)
        /\ seen_file.lines = <<>> => (~seen_q.dup /\ seen_q.reason = None)

(***************************************************************************)
(* Ingestion (SpecIngest).                                                 *)
(***************************************************************************)
\* the records load_seen_records can read from seen.jsonl, oldest first
ValidRecords ==
    LET good == SelectSeq(seen_file.lines, LAMBDA l : ~InvalidLine(l))
    IN  [i \in DOMAIN good |-> good[i].doc]

SameObjects(h0) == SubSeq(heap, 1, Len(h0)) = h0

\* C27: neither pre_rank nor generate_digest_json changes what it is given:
\* after pre_rank the list of the caller and every item are as they were,
\* and after generate_digest_json so are they and the ranked list, also
\* when an item has a content longer than the request takes.
C27_InputsNotMutated ==
    /\ fr.pc \in {"ranked", "generated"} => SameObjects(fr.heap0)
    /\ fr.pc = "generated" => SameObjects(fr.heap1)

\* a request was built with the content of an item cut, after a ranking
\* that put the items in another order
C27_Witness ==
    /\ fr.pc = "generated"
    /\ Len(heap[fr.items].v) = 2
    /\ heap[fr.top].v # heap[fr.items].v
    /\ \E i \in DOMAIN fr.payload :
           /\ Len(heap[fr.payload[i]].v.content) = ContentCap + 1
           /\ Len(heap[heap[fr.top].v[i]].v.content) = ContentCap + 2

=============================================================================
